---- MODULE Spec2Model ----
(***************************************************************************)
(* A model of the reporting pipeline of driver_tree_transform.py: main()   *)
(* loads a wide weekly table, unpivots it, perturbs Value, computes the    *)
(* rolling run-rate and the year-on-year growth, filters to the latest     *)
(* weeks and saves.  Tables are pandas DataFrames: a sequence of column    *)
(* headers and a sequence of rows, each row a sequence of cells aligned    *)
(* with the headers.  Floats are modelled as exact extended rationals      *)
(* (n/d, with NaN, +inf and -inf), so rounding error is not represented.   *)
(***************************************************************************)
EXTENDS Integers, Sequences, FiniteSets, TLC

VARIABLES
    input_file,                 \* the spreadsheet at EXCEL_FILE_PATH
    rng,                        \* state of numpy's global random generator
    pc,                         \* position of main()
    df_raw,
    actual_columns_to_unpivot,
    id_vars,
    df_unpivoted,
    df_randomized_values,
    df_with_runrate,
    df_final,
    error,                      \* the exception main() caught, "" when none
    output_file,                \* the spreadsheet at OUTPUT_EXCEL_PATH, which
                                \* is TRANSFORMED_DATA_FILE of the analysis scripts
    keys_file,                  \* the file at KEYS_FILE
    script,                     \* the analysis script run: gradio_interface or analyser
    cpc,                        \* position of that script
    GEMINI_API_KEY,
    model,
    df_transformed,
    analysis_data_markdown,
    highest_fiscal_week_for_analysis,
    spreadsheet_reads,          \* pd.read_excel(TRANSFORMED_DATA_FILE) calls made
    model_calls,                \* the model.generate_content calls made: their outcomes
    returned                    \* what the calls of the session have returned

client_vars == <<keys_file, script, cpc, GEMINI_API_KEY, model, df_transformed,
                 analysis_data_markdown, highest_fiscal_week_for_analysis,
                 spreadsheet_reads, model_calls, returned>>

vars == <<input_file, rng, pc, df_raw, actual_columns_to_unpivot, id_vars,
          df_unpivoted, df_randomized_values, df_with_runrate, df_final,
          error, output_file, client_vars>>

----------------------------------------------------------------------------
(* Python values held in cells and headers *)

\* a str
S(s) == [t |-> "str", n |-> 0, d |-> 0, s |-> s]

\* NaN / pd.NA / an empty spreadsheet cell
NaN == [t |-> "nan", n |-> 0, d |-> 0, s |-> ""]

PosInf == [t |-> "inf", n |-> 1, d |-> 0, s |-> ""]

NegInf == [t |-> "inf", n |-> -1, d |-> 0, s |-> ""]

Abs(i) == IF i < 0 THEN -i ELSE i

RECURSIVE Gcd(_, _)
Gcd(a, b) == IF b = 0 THEN a ELSE Gcd(b, a % b)

\* the finite number n/d (d # 0), kept in lowest terms with d > 0
Q(n, d) ==
    LET g  == Gcd(Abs(n), Abs(d))
        sg == IF d < 0 THEN -1 ELSE 1
    IN  [t |-> "num", n |-> (sg * n) \div g, d |-> (sg * d) \div g, s |-> ""]

\* an int (or the float of the same value: Python compares them equal)
I(i) == Q(i, 1)

IsNum(v) == v.t = "num"

IsNull(v) == v.t = "nan"

\* float multiplication of finite numbers; NaN propagates
FMul(a, b) ==
    IF IsNum(a) /\ IsNum(b) THEN Q(a.n * b.n, a.d * b.d) ELSE NaN

\* float addition of finite numbers; NaN propagates
FAdd(a, b) ==
    IF IsNum(a) /\ IsNum(b) THEN Q(a.n * b.d + b.n * a.d, a.d * b.d) ELSE NaN

\* IEEE division as pandas performs it on float columns: x/0 is +-inf,
\* 0/0 is NaN
FDiv(a, b) ==
    IF ~(IsNum(a) /\ IsNum(b)) THEN NaN
    ELSE IF b.n # 0 THEN Q(a.n * b.d, a.d * b.n)
    ELSE IF a.n > 0 THEN PosInf
    ELSE IF a.n < 0 THEN NegInf
    ELSE NaN

\* x - 1 on floats: inf stays inf
FMinusOne(a) ==
    IF IsNum(a) THEN Q(a.n - a.d, a.d)
    ELSE a

\* x > 0 as a pandas comparison: False on NaN
FPositive(a) == (a.t = "num" /\ a.n > 0) \/ (a.t = "inf" /\ a.n > 0)

\* a < b for finite numbers
FLess(a, b) == a.n * b.d < b.n * a.d

Digit == <<"0", "1", "2", "3", "4", "5", "6", "7", "8", "9">>

\* Python's str(i) for i >= 0
RECURSIVE str(_)
str(i) == IF i < 10 THEN Digit[i + 1] ELSE str(i \div 10) \o Digit[(i % 10) + 1]

\* pd.to_numeric(..., errors='coerce') on one cell: numbers stay, a decimal
\* string is parsed, anything else becomes NaN
to_numeric(v) ==
    IF v.t = "num" \/ v.t = "inf" THEN v
    ELSE IF v.t = "str" /\ \E k \in 0..99 : str(k) = v.s
         THEN I(CHOOSE k \in 0..99 : str(k) = v.s)
    ELSE NaN

\* the strings of the model in Python's (code point) order
StrOrder == <<"", "A", "B", "SALES", "Store", "UNITS", "Web">>

StrRank(s) == CHOOSE i \in 1..Len(StrOrder) : StrOrder[i] = s

----------------------------------------------------------------------------
(* Configuration constants *)

RANGE_START == 1

RANGE_STOP == 53

\* COLUMNS_TO_UNPIVOT_RANGE = range(1, 53)
COLUMNS_TO_UNPIVOT_RANGE == [i \in 1..(RANGE_STOP - RANGE_START) |-> RANGE_START + i - 1]

FISCAL_WEEK_COL_NAME == S("FiscalWeek")

VALUE_COL_NAME == S("Value")

RUNRATE_COL_NAME == S("Runrate")

TIME_PERIOD_COL_NAME == S("TimePeriod")

COHORT_COL_NAME == S("Cohort")

CHANNEL_COL_NAME == S("Channel")

VALUES_COL_NAME == S("Values")

WEEKS_IN_YEAR == 52

\* YEAR_MAP as a set of <<key, value>> pairs
YEAR_MAP == {<<"FY2024", 0>>, <<"FY2025", 1>>}

RUNRATE_GROUPING_COLS == <<COHORT_COL_NAME, CHANNEL_COL_NAME, VALUES_COL_NAME>>

RUNRATE_WINDOW == 4

RUNRATE_MIN_PERIODS == 4

CURRENT_TIME_PERIOD_LABEL == S("FY2025")

PREVIOUS_TIME_PERIOD_LABEL == S("FY2024")

YOY_MERGE_KEYS ==
    <<COHORT_COL_NAME, CHANNEL_COL_NAME, VALUES_COL_NAME, FISCAL_WEEK_COL_NAME>>

LAST_YEAR_VALUE_COL_NAME == S("LastYearValue")

YOY_GROWTH_COL == S("YearOnYearGrowth")

YOY_RUNRATE_GROWTH_COL == S("YearOnYearRunrateGrowth")

\* the percentage_variation main() passes to randomize_values, in tenths
PERCENTAGE_VARIATION_TENTHS == 3

----------------------------------------------------------------------------
(* DataFrames *)

EmptyDf == [cols |-> <<>>, rows |-> <<>>]

\* body, with v computed once beforehand: TLC evaluates a definition again on
\* every use inside a function application unless it already has its value
Eager(v, body) == IF v = v THEN body ELSE body

Range(seq) == {seq[i] : i \in 1..Len(seq)}

\* col in df.columns
HasCol(df, c) == \E i \in 1..Len(df.cols) : df.cols[i] = c

ColIndex(df, c) == CHOOSE i \in 1..Len(df.cols) : df.cols[i] = c

\* the cell of row r (a row of df) in column c
Cell(df, r, c) == r[ColIndex(df, c)]

\* df[c] = <one value per row>: replaces the column, or appends it
SetCol(df, c, vals) ==
    Eager(<<df, vals>>,
    IF HasCol(df, c)
    THEN LET at == ColIndex(df, c)
         IN  Eager(at,
             [df EXCEPT !.rows =
                [i \in 1..Len(df.rows) |-> [df.rows[i] EXCEPT ![at] = vals[i]]]])
    ELSE [cols |-> Append(df.cols, c),
          rows |-> [i \in 1..Len(df.rows) |-> Append(df.rows[i], vals[i])]])

\* df[c] = scalar
SetColScalar(df, c, v) == SetCol(df, c, [i \in 1..Len(df.rows) |-> v])

\* the positions of cols that are kept when the columns in `names` go
KeptPositions(cols, names) ==
    SelectSeq([i \in 1..Len(cols) |-> i], LAMBDA i : cols[i] \notin names)

\* df.drop(columns=names, errors='ignore')
DropCols(df, names) ==
    LET keep == KeptPositions(df.cols, names)
    IN  Eager(<<df, keep>>,
        [cols |-> [k \in 1..Len(keep) |-> df.cols[keep[k]]],
         rows |-> [i \in 1..Len(df.rows) |->
                     [k \in 1..Len(keep) |-> df.rows[i][keep[k]]]]])

\* df[mask]: the rows at which the boolean mask holds, in order
FilterRows(df, mask) ==
    Eager(<<df, mask>>,
        LET kept == SelectSeq([i \in 1..Len(df.rows) |-> i], LAMBDA i : mask[i])
        IN  Eager(kept, [df EXCEPT !.rows = [k \in 1..Len(kept) |-> df.rows[kept[k]]]]))

\* df[names]: the named columns, in the order named
Project(df, names) ==
    LET at == [k \in 1..Len(names) |-> ColIndex(df, names[k])]
    IN  Eager(<<df, at>>,
        [cols |-> names,
         rows |-> [i \in 1..Len(df.rows) |->
                     [k \in 1..Len(names) |-> df.rows[i][at[k]]]]])


----------------------------------------------------------------------------
(* get_columns_to_unpivot *)

\* [col for col in <candidates> if col in df_columns]
PresentColumns(candidates, df_columns) ==
    SelectSeq(candidates, LAMBDA c : c \in Range(df_columns))

\* the function without its raise: an empty list is returned like any other
get_columns_to_unpivot_no_raise(df_columns, expected_range) ==
    LET columns_to_unpivot_int == [i \in 1..Len(expected_range) |-> I(expected_range[i])]
        columns_to_unpivot_str == [i \in 1..Len(expected_range) |-> S(str(expected_range[i]))]
        found_int == PresentColumns(columns_to_unpivot_int, df_columns)
        actual_columns == IF found_int # <<>> THEN found_int
                          ELSE PresentColumns(columns_to_unpivot_str, df_columns)
    IN  [raised |-> FALSE, columns |-> actual_columns]

\* the function raising whenever an expected column is missing
get_columns_to_unpivot_all_or_raise(df_columns, expected_range) ==
    LET columns_to_unpivot_int == [i \in 1..Len(expected_range) |-> I(expected_range[i])]
        columns_to_unpivot_str == [i \in 1..Len(expected_range) |-> S(str(expected_range[i]))]
        found_int == PresentColumns(columns_to_unpivot_int, df_columns)
        actual_columns == IF found_int # <<>> THEN found_int
                          ELSE PresentColumns(columns_to_unpivot_str, df_columns)
    IN  [raised |-> Len(actual_columns) < Len(expected_range), columns |-> actual_columns]

\* the list returned, or raised = TRUE for the ValueError
get_columns_to_unpivot(df_columns, expected_range) ==
    LET columns_to_unpivot_int == [i \in 1..Len(expected_range) |-> I(expected_range[i])]
        columns_to_unpivot_str == [i \in 1..Len(expected_range) |-> S(str(expected_range[i]))]
        found_int == PresentColumns(columns_to_unpivot_int, df_columns)
        actual_columns == IF found_int # <<>> THEN found_int
                          ELSE PresentColumns(columns_to_unpivot_str, df_columns)
    IN  [raised |-> actual_columns = <<>>, columns |-> actual_columns]

----------------------------------------------------------------------------
(* unpivot_data *)

\* melt followed by a dropna on the value column: what unpivot_data would
\* return if it discarded the empty cells
melt_dropna(df, ids, value_vars) ==
    LET n      == Len(df.rows)
        id_at  == [j \in 1..Len(ids) |-> ColIndex(df, ids[j])]
        var_at == [k \in 1..Len(value_vars) |-> ColIndex(df, value_vars[k])]
    IN  Eager(<<df, id_at, var_at>>,
        [cols |-> ids \o <<FISCAL_WEEK_COL_NAME, VALUE_COL_NAME>>,
         rows |-> SelectSeq(
                     [p \in 1..(Len(value_vars) * n) |->
                         LET k == ((p - 1) \div n) + 1
                             i == ((p - 1) % n) + 1
                         IN  [j \in 1..Len(ids) |-> df.rows[i][id_at[j]]]
                             \o <<value_vars[k], df.rows[i][var_at[k]]>>],
                     LAMBDA r : ~IsNull(r[Len(r)]))])

\* pd.melt: one output row per (value column, input row), value columns outermost
melt(df, ids, value_vars) ==
    LET n      == Len(df.rows)
        id_at  == [j \in 1..Len(ids) |-> ColIndex(df, ids[j])]
        var_at == [k \in 1..Len(value_vars) |-> ColIndex(df, value_vars[k])]
    IN  Eager(<<df, id_at, var_at>>,
        [cols |-> ids \o <<FISCAL_WEEK_COL_NAME, VALUE_COL_NAME>>,
         rows |-> [p \in 1..(Len(value_vars) * n) |->
                     LET k == ((p - 1) \div n) + 1
                         i == ((p - 1) % n) + 1
                     IN  [j \in 1..Len(ids) |-> df.rows[i][id_at[j]]]
                         \o <<value_vars[k], df.rows[i][var_at[k]]>>]])

\* the caller's df once unpivot_data has returned: with no value_vars the
\* FiscalWeek and Value columns are added to it in place
unpivot_data_df_after(df, value_vars) ==
    IF value_vars # <<>> THEN df
    ELSE LET d1 == IF HasCol(df, FISCAL_WEEK_COL_NAME) THEN df
                   ELSE SetColScalar(df, FISCAL_WEEK_COL_NAME, NaN)
         IN  IF HasCol(d1, VALUE_COL_NAME) THEN d1
             ELSE SetColScalar(d1, VALUE_COL_NAME, NaN)

unpivot_data(df, ids, value_vars) ==
    IF value_vars = <<>> THEN unpivot_data_df_after(df, value_vars)
    ELSE melt(df, ids, value_vars)

----------------------------------------------------------------------------
(* randomize_values *)

\* the generator behind np.random.uniform, numpy's Mersenne Twister, is a
\* key (set by the seed) and the position of the next draw; the draw at a
\* position is a fixed scrambling of the two.  In tenths: each draw of
\* np.random.uniform(-v, v) lies in [-v, v)
Draw(state, i, v) ==
    LET pos == state.pos + i
    IN  (((state.key + pos) * (pos + 3) + 5 * state.key) % (2 * v)) - v

\* factors from a generator the seed does not govern: a run that finds an
\* output file on disk draws from another stream
random_factors_unseeded(state, v, n) ==
    [i \in 1..n |->
        Draw([state EXCEPT !.key = @ + IF output_file.exists THEN 1 ELSE 0], i, v)]

\* np.random.uniform(-v, v, size=n)
random_factors(state, v, n) == [i \in 1..n |-> Draw(state, i, v)]

\* the table returned and the generator's state afterwards
randomize_values(df, state, v) ==
    IF ~HasCol(df, VALUE_COL_NAME) THEN [df |-> df, rng |-> state]
    ELSE LET n       == Len(df.rows)
             at      == ColIndex(df, VALUE_COL_NAME)
             factors == random_factors(state, v, n)
         IN  Eager(<<df, at, factors>>,
             [df  |-> SetCol(df, VALUE_COL_NAME,
                         [i \in 1..n |->
                             FMul(to_numeric(df.rows[i][at]), Q(10 + factors[i], 10))]),
              rng |-> [state EXCEPT !.pos = @ + n]])

----------------------------------------------------------------------------
(* calculate_runrate *)

TEMP_YEAR_OFFSET_COL == S("temp_YearOffset")

TEMP_GLOBAL_FISCAL_WEEK_COL == S("temp_GlobalFiscalWeek")

\* Series.map(year_map) on one cell: NaN for a key the map lacks
MapYear(v, year_map) ==
    IF v.t = "str" /\ \E kv \in year_map : kv[1] = v.s
    THEN I((CHOOSE kv \in year_map : kv[1] = v.s)[2])
    ELSE NaN

\* the week index without the year offset: what every period would get if
\* the offset were left out of the sum
GlobalFiscalWeek_no_offset(year_offset, weeks_in_year, fiscal_week) ==
    IF IsNull(year_offset) THEN NaN ELSE fiscal_week

\* (temp_YearOffset * weeks_in_year) + FiscalWeek on one row
GlobalFiscalWeek(year_offset, weeks_in_year, fiscal_week) ==
    FAdd(FMul(year_offset, I(weeks_in_year)), fiscal_week)

\* -1, 0, 1: the order sort_values puts two cells of one column in, NaN last
CellCmp(a, b) ==
    IF IsNull(a) /\ IsNull(b) THEN 0
    ELSE IF IsNull(a) THEN 1
    ELSE IF IsNull(b) THEN -1
    ELSE IF a.t = "str"
         THEN (IF StrRank(a.s) < StrRank(b.s) THEN -1
               ELSE IF StrRank(a.s) > StrRank(b.s) THEN 1 ELSE 0)
    ELSE IF FLess(a, b) THEN -1
    ELSE IF FLess(b, a) THEN 1
    ELSE 0

RECURSIVE KeyCmp(_, _)
\* lexicographic order of two key tuples
KeyCmp(ka, kb) ==
    IF ka = <<>> THEN 0
    ELSE IF CellCmp(Head(ka), Head(kb)) # 0 THEN CellCmp(Head(ka), Head(kb))
    ELSE KeyCmp(Tail(ka), Tail(kb))

\* df.sort_values(by=by): a stable ascending sort, rows of equal keys stay in
\* their input order
sort_values(df, by) ==
    LET n      == Len(df.rows)
        at     == [k \in 1..Len(by) |-> ColIndex(df, by[k])]
        key    == [i \in 1..n |-> [k \in 1..Len(by) |-> df.rows[i][at[k]]]]
        rank   == [i \in 1..n |->
                     Cardinality({j \in 1..n :
                         \/ KeyCmp(key[j], key[i]) < 0
                         \/ (KeyCmp(key[j], key[i]) = 0 /\ j <= i)})]
    IN  Eager(<<df, at>>, Eager(key, Eager(rank,
        [df EXCEPT !.rows =
            [p \in 1..n |-> df.rows[CHOOSE i \in 1..n : rank[i] = p]]])))

RECURSIVE Sum(_)
Sum(vals) == IF vals = <<>> THEN I(0) ELSE FAdd(Head(vals), Sum(Tail(vals)))

\* the rolling mean with min_periods left at 1: a mean as soon as the window
\* holds one value
rolling_mean_any(x, p, window, min_periods) ==
    LET first == IF p - window + 1 < 1 THEN 1 ELSE p - window + 1
        obs   == SelectSeq(SubSeq(x, first, p), LAMBDA v : ~IsNull(v))
    IN  IF Len(obs) > 0 THEN FDiv(Sum(obs), I(Len(obs))) ELSE NaN

\* x.rolling(window, min_periods).mean() at position p of the series x: the
\* mean of the non-null values among the last `window` entries up to p,
\* when there are at least min_periods of them
rolling_mean(x, p, window, min_periods) ==
    LET first == IF p - window + 1 < 1 THEN 1 ELSE p - window + 1
        obs   == SelectSeq(SubSeq(x, first, p), LAMBDA v : ~IsNull(v))
    IN  IF Len(obs) >= min_periods /\ Len(obs) > 0
        THEN FDiv(Sum(obs), I(Len(obs)))
        ELSE NaN

\* df.groupby(grouping_cols)[value_col].transform(rolling mean): one value
\* per row of df, each group's rows taken in the order they have in df; a
\* row with a null grouping cell belongs to no group
grouped_rolling_mean(df, grouping_cols, value_col, window, min_periods) ==
    LET n    == Len(df.rows)
        at   == [k \in 1..Len(grouping_cols) |-> ColIndex(df, grouping_cols[k])]
        key  == [i \in 1..n |-> [k \in 1..Len(at) |-> df.rows[i][at[k]]]]
        vcol == ColIndex(df, value_col)
    IN  Eager(<<df, at, vcol>>, Eager(key,
        [i \in 1..n |->
            IF \E k \in 1..Len(at) : IsNull(key[i][k]) THEN NaN
            ELSE LET members == SelectSeq([j \in 1..i |-> j], LAMBDA j : key[j] = key[i])
                 IN  Eager(members,
                     LET x == [m \in 1..Len(members) |-> df.rows[members[m]][vcol]]
                     IN  Eager(x, rolling_mean(x, Len(x), window, min_periods)))]))

\* a stage that refuses to run without its grouping columns
runrate_raises_without_groups(df) ==
    \/ ~HasCol(df, TIME_PERIOD_COL_NAME)
    \/ \E k \in 1..Len(RUNRATE_GROUPING_COLS) : ~HasCol(df, RUNRATE_GROUPING_COLS[k])

\* df_processed[time_period_col] raises KeyError when the column is missing
runrate_raises(df) == ~HasCol(df, TIME_PERIOD_COL_NAME)

\* the table returned, or raised = TRUE for the KeyError of a missing
\* time_period_col
calculate_runrate(df) ==
    IF ~HasCol(df, FISCAL_WEEK_COL_NAME) \/ ~HasCol(df, VALUE_COL_NAME)
    THEN [raised |-> FALSE, df |-> SetColScalar(df, RUNRATE_COL_NAME, NaN)]
    ELSE IF runrate_raises(df)
    THEN [raised |-> TRUE, df |-> EmptyDf]
    ELSE
    LET n   == Len(df.rows)
        fw  == ColIndex(df, FISCAL_WEEK_COL_NAME)
        tp  == ColIndex(df, TIME_PERIOD_COL_NAME)
        fiscal_week == [i \in 1..n |-> to_numeric(df.rows[i][fw])]
        year_offset == [i \in 1..n |-> MapYear(df.rows[i][tp], YEAR_MAP)]
    IN  Eager(<<df, fiscal_week, year_offset>>,
        LET d1 == SetCol(df, FISCAL_WEEK_COL_NAME, fiscal_week)
            d2 == SetCol(d1, TEMP_YEAR_OFFSET_COL, year_offset)
            d3 == SetCol(d2, TEMP_GLOBAL_FISCAL_WEEK_COL,
                      [i \in 1..n |->
                          GlobalFiscalWeek(year_offset[i], WEEKS_IN_YEAR, fiscal_week[i])])
            missing_base_group_cols ==
                SelectSeq(RUNRATE_GROUPING_COLS, LAMBDA c : ~HasCol(d3, c))
        IN  Eager(d3,
            LET d4 == IF missing_base_group_cols # <<>>
                      THEN SetColScalar(d3, RUNRATE_COL_NAME, NaN)
                      ELSE LET sorted == sort_values(d3,
                                   RUNRATE_GROUPING_COLS \o <<TEMP_GLOBAL_FISCAL_WEEK_COL>>)
                           IN  Eager(sorted,
                               SetCol(sorted, RUNRATE_COL_NAME,
                                   grouped_rolling_mean(sorted, RUNRATE_GROUPING_COLS,
                                       VALUE_COL_NAME, RUNRATE_WINDOW, RUNRATE_MIN_PERIODS)))
            IN  Eager(d4,
                [raised |-> FALSE,
                 df |-> DropCols(d4, {TEMP_YEAR_OFFSET_COL, TEMP_GLOBAL_FISCAL_WEEK_COL})])))

----------------------------------------------------------------------------
(* calculate_yoy_growth *)

VALUE_PY_COL == S("Value_PY")

RUNRATE_PY_COL == S("Runrate_PY")

\* the cells of row r in the key columns
KeyOf(df, r, keys) == [k \in 1..Len(keys) |-> Cell(df, r, keys[k])]

\* pd.merge(left, right, on=keys, how='left'): the inner merge plus every
\* unmatched left row, its right-hand cells null
left_merge(left, right, keys) ==
    LET extra    == SelectSeq(right.cols, LAMBDA c : c \notin Range(keys))
        extra_at == [k \in 1..Len(extra) |-> ColIndex(right, extra[k])]
        nl       == Len(left.rows)
        nr       == Len(right.rows)
        lkey     == [i \in 1..nl |-> KeyOf(left, left.rows[i], keys)]
        rkey     == [j \in 1..nr |-> KeyOf(right, right.rows[j], keys)]
    IN  Eager(<<left, right, extra_at, lkey, rkey>>,
        LET pairs == SelectSeq(
                         [p \in 1..(nl * (nr + 1)) |->
                             <<((p - 1) \div (nr + 1)) + 1, (p - 1) % (nr + 1)>>],
                         LAMBDA ij :
                             IF ij[2] = 0
                             THEN \A j \in 1..nr : lkey[ij[1]] # rkey[j]
                             ELSE lkey[ij[1]] = rkey[ij[2]])
        IN  Eager(pairs,
            [cols |-> left.cols \o extra,
             rows |-> [m \in 1..Len(pairs) |->
                         left.rows[pairs[m][1]] \o
                         [k \in 1..Len(extra) |->
                             IF pairs[m][2] = 0 THEN NaN
                             ELSE right.rows[pairs[m][2]][extra_at[k]]]]]))

\* pd.merge(left, right, on=keys, how='inner'): one row per pair of a left
\* and a right row with equal keys, left order first, carrying the left
\* row's cells and the right row's non-key cells
inner_merge(left, right, keys) ==
    LET extra    == SelectSeq(right.cols, LAMBDA c : c \notin Range(keys))
        extra_at == [k \in 1..Len(extra) |-> ColIndex(right, extra[k])]
        nl       == Len(left.rows)
        nr       == Len(right.rows)
        lkey     == [i \in 1..nl |-> KeyOf(left, left.rows[i], keys)]
        rkey     == [j \in 1..nr |-> KeyOf(right, right.rows[j], keys)]
    IN  Eager(<<left, right, extra_at, lkey, rkey>>,
        LET pairs == SelectSeq(
                         [p \in 1..(nl * nr) |-> <<((p - 1) \div nr) + 1, ((p - 1) % nr) + 1>>],
                         LAMBDA ij : lkey[ij[1]] = rkey[ij[2]])
        IN  Eager(pairs,
            [cols |-> left.cols \o extra,
             rows |-> [m \in 1..Len(pairs) |->
                         left.rows[pairs[m][1]] \o
                         [k \in 1..Len(extra) |-> right.rows[pairs[m][2]][extra_at[k]]]]]))

\* the growth as a percentage, as the comment above the computation has it:
\* ((current / previous) - 1) * 100
growth_percent(current, previous) == FMul(FMinusOne(FDiv(current, previous)), I(100))

\* (current / previous) - 1 on one row
growth(current, previous) == FMinusOne(FDiv(current, previous))

\* the early return taken only when both periods are absent
period_data_missing_both(df_current_tp, df_previous_tp) ==
    df_current_tp.rows = <<>> /\ df_previous_tp.rows = <<>>

\* df_current_tp.empty or df_previous_tp.empty
period_data_missing(df_current_tp, df_previous_tp) ==
    df_current_tp.rows = <<>> \/ df_previous_tp.rows = <<>>

\* a result built on df_processed, which holds the rows of every period
calculate_yoy_growth_returns_processed(df) ==
    SetColScalar(
        SetColScalar(
            SetColScalar(df, YOY_GROWTH_COL, NaN),
            YOY_RUNRATE_GROWTH_COL, NaN),
        LAST_YEAR_VALUE_COL_NAME, NaN)

calculate_yoy_growth(df) ==
    LET d0 == SetColScalar(
                  SetColScalar(
                      SetColScalar(df, YOY_GROWTH_COL, NaN),
                      YOY_RUNRATE_GROWTH_COL, NaN),
                  LAST_YEAR_VALUE_COL_NAME, NaN)
        required_cols_for_yoy ==
            YOY_MERGE_KEYS \o <<TIME_PERIOD_COL_NAME, VALUE_COL_NAME, RUNRATE_COL_NAME>>
    IN  Eager(d0,
        IF \E k \in 1..Len(required_cols_for_yoy) : ~HasCol(d0, required_cols_for_yoy[k])
        THEN d0
        ELSE
        LET tp == ColIndex(d0, TIME_PERIOD_COL_NAME)
            df_current_tp  ==
                FilterRows(d0, [i \in 1..Len(d0.rows) |->
                                   d0.rows[i][tp] = CURRENT_TIME_PERIOD_LABEL])
            df_previous_tp ==
                FilterRows(d0, [i \in 1..Len(d0.rows) |->
                                   d0.rows[i][tp] = PREVIOUS_TIME_PERIOD_LABEL])
        IN  Eager(<<df_current_tp, df_previous_tp>>,
            IF period_data_missing(df_current_tp, df_previous_tp)
            THEN d0
            ELSE
            LET metrics == Project(df_previous_tp,
                               YOY_MERGE_KEYS \o <<VALUE_COL_NAME, RUNRATE_COL_NAME>>)
                df_previous_tp_metrics ==
                    [metrics EXCEPT !.cols = YOY_MERGE_KEYS \o <<VALUE_PY_COL, RUNRATE_PY_COL>>]
                m0 == inner_merge(df_current_tp, df_previous_tp_metrics, YOY_MERGE_KEYS)
            IN  Eager(m0,
                LET n  == Len(m0.rows)
                    v  == ColIndex(m0, VALUE_COL_NAME)
                    vp == ColIndex(m0, VALUE_PY_COL)
                    r  == ColIndex(m0, RUNRATE_COL_NAME)
                    rp == ColIndex(m0, RUNRATE_PY_COL)
                    m1 == SetCol(m0, YOY_GROWTH_COL,
                              [i \in 1..n |-> growth(m0.rows[i][v], m0.rows[i][vp])])
                    m2 == SetCol(m1, YOY_RUNRATE_GROWTH_COL,
                              [i \in 1..n |-> growth(m0.rows[i][r], m0.rows[i][rp])])
                IN  Eager(<<v, vp, r, rp>>, Eager(m2,
                    DropCols(m2, {LAST_YEAR_VALUE_COL_NAME, VALUE_PY_COL, RUNRATE_PY_COL}))))))

----------------------------------------------------------------------------
(* the recency filter of main *)

\* the distinct values of a sequence of numbers, highest first (sorted(..., reverse=True))
SortedDescending(vals) ==
    LET set == Range(vals)
    IN  Eager(set,
        [p \in 1..Cardinality(set) |->
            CHOOSE v \in set : Cardinality({u \in set : FLess(v, u)}) = p - 1])

\* the first k entries of a list (list[:k])
FirstK(seq, k) == SubSeq(seq, 1, IF Len(seq) < k THEN Len(seq) ELSE k)

LATEST_WEEKS_KEPT == 4

recency_filter(df) ==
    IF ~(HasCol(df, VALUE_COL_NAME) /\ HasCol(df, FISCAL_WEEK_COL_NAME)) THEN df
    ELSE
    LET v  == ColIndex(df, VALUE_COL_NAME)
        fw == ColIndex(df, FISCAL_WEEK_COL_NAME)
        positive_value_weeks_df ==
            FilterRows(df, [i \in 1..Len(df.rows) |-> FPositive(df.rows[i][v])])
    IN  Eager(<<df, v, fw>>, Eager(positive_value_weeks_df,
        IF positive_value_weeks_df.rows = <<>> THEN df
        ELSE
        LET weeks == [i \in 1..Len(positive_value_weeks_df.rows) |->
                         positive_value_weeks_df.rows[i][fw]]
            latest_positive_weeks ==
                FirstK(SortedDescending(weeks), LATEST_WEEKS_KEPT)
            kept == Range(latest_positive_weeks)
        IN  Eager(kept,
            IF latest_positive_weeks = <<>> THEN df
            ELSE FilterRows(df, [i \in 1..Len(df.rows) |-> df.rows[i][fw] \in kept]))))

----------------------------------------------------------------------------
(* The input spreadsheets explored *)

\* the most rows a small input table holds
MaxRows == 2

\* the seeds the operating system may hand numpy's generator
RngSeeds == {1, 4}

G1 == <<"A", "Web", "SALES">>

G2 == <<"A", "Store", "SALES">>

Patterns == {"ramp", "holes"}

\* the cell of fiscal week w in a row filled by pattern p
PatternCell(p, w) ==
    IF p = "ramp" THEN I(10 * w)
    ELSE IF w % 4 = 0 THEN NaN
    ELSE IF w % 4 = 1 THEN I(0)
    ELSE IF w % 4 = 2 THEN I(-10)
    ELSE I(30)

IdHeaders == <<COHORT_COL_NAME, CHANNEL_COL_NAME, VALUES_COL_NAME, TIME_PERIOD_COL_NAME>>

IntHeaders(weeks) == [i \in 1..Len(weeks) |-> I(weeks[i])]

StrHeaders(weeks) == [i \in 1..Len(weeks) |-> S(str(weeks[i]))]

\* header rows of the small input tables: year-to-date and partial week
\* sets, string-typed and mixed week headers, no week column at all, and a
\* missing Cohort or TimePeriod column
SmallLayouts ==
    { IdHeaders \o IntHeaders(<<1, 2>>),
      IdHeaders \o IntHeaders(<<1, 2, 3, 50, 51, 52>>),
      IdHeaders \o IntHeaders(<<3, 5, 6, 9, 10>>),
      IdHeaders \o StrHeaders(<<1, 2, 3>>),
      IdHeaders,
      IdHeaders \o IntHeaders(<<2, 1>>) \o StrHeaders(<<3>>),
      <<CHANNEL_COL_NAME, VALUES_COL_NAME, TIME_PERIOD_COL_NAME>> \o IntHeaders(<<1, 2>>),
      <<COHORT_COL_NAME, CHANNEL_COL_NAME, VALUES_COL_NAME>> \o IntHeaders(<<1, 2>>) }

\* the header row of a complete input: all 52 weeks
FullLayout == IdHeaders \o IntHeaders(COLUMNS_TO_UNPIVOT_RANGE)

\* the wide rows a small table is built from: a group, a time period and a
\* fill pattern each
RowChoices ==
    { <<G1, "FY2024", "ramp">>, <<G1, "FY2025", "ramp">>, <<G1, "FY2025", "holes">>,
      <<G1, "FY2023", "ramp">>, <<G2, "FY2024", "holes">>, <<G2, "FY2025", "ramp">> }

\* the rows of a complete table: one group, one row per time period
FullRowSeqs ==
    LET prev == {G1} \X {"FY2024"} \X Patterns
        cur  == {G1} \X {"FY2025"} \X Patterns
    IN  {<<a>> : a \in prev \cup cur}
        \cup {<<a, b>> : a \in prev, b \in cur}
        \cup {<<b, a>> : a \in prev, b \in cur}

\* one wide row under the header row `layout`
WideRow(layout, choice) ==
    LET g == choice[1]
    IN  [j \in 1..Len(layout) |->
            IF layout[j] = COHORT_COL_NAME THEN S(g[1])
            ELSE IF layout[j] = CHANNEL_COL_NAME THEN S(g[2])
            ELSE IF layout[j] = VALUES_COL_NAME THEN S(g[3])
            ELSE IF layout[j] = TIME_PERIOD_COL_NAME THEN S(choice[2])
            ELSE PatternCell(choice[3], to_numeric(layout[j]).n)]

WideTable(layout, choices) ==
    [cols |-> layout,
     rows |-> [i \in 1..Len(choices) |-> WideRow(layout, choices[i])]]

InputTables ==
    UNION { { WideTable(layout, choices) : choices \in [1..n -> RowChoices] } :
            n \in 0..MaxRows, layout \in SmallLayouts }
    \cup
    { WideTable(FullLayout, choices) : choices \in FullRowSeqs }

----------------------------------------------------------------------------
(* the analysis scripts: values of their module globals *)

\* Python's None
None == [t |-> "none", n |-> 0, d |-> 0, s |-> ""]

\* df_transformed = None
NoTable == [none |-> TRUE, df |-> EmptyDf]

\* no analysis script is running
ClientNotStarted ==
    /\ keys_file = [exists |-> FALSE, json |-> "", key |-> None]
    /\ script = ""
    /\ cpc = "not_run"
    /\ GEMINI_API_KEY = None
    /\ model = "None"
    /\ df_transformed = NoTable
    /\ analysis_data_markdown = <<>>
    /\ highest_fiscal_week_for_analysis = None
    /\ spreadsheet_reads = 0
    /\ model_calls = <<>>
    /\ returned = <<>>

----------------------------------------------------------------------------
(* main *)

Init ==
    /\ input_file \in
           {[exists |-> TRUE, df |-> t] : t \in InputTables}
           \cup {[exists |-> FALSE, df |-> EmptyDf]}
    /\ rng \in {[key |-> k, pos |-> 0] : k \in RngSeeds}
    /\ pc = "load_data"
    /\ df_raw = EmptyDf
    /\ actual_columns_to_unpivot = <<>>
    /\ id_vars = <<>>
    /\ df_unpivoted = EmptyDf
    /\ df_randomized_values = EmptyDf
    /\ df_with_runrate = EmptyDf
    /\ df_final = EmptyDf
    /\ error = ""
    /\ output_file = [exists |-> FALSE, df |-> EmptyDf]
    /\ ClientNotStarted

\* df_raw = load_data(EXCEL_FILE_PATH); a missing file raises
\* FileNotFoundError, which main catches and ends on
LoadData ==
    /\ pc = "load_data"
    /\ IF input_file.exists
       THEN /\ df_raw' = input_file.df
            /\ pc' = "get_columns_to_unpivot"
            /\ error' = error
       ELSE /\ df_raw' = df_raw
            /\ pc' = "done"
            /\ error' = "FileNotFoundError"
    /\ UNCHANGED <<input_file, rng, actual_columns_to_unpivot, id_vars, df_unpivoted,
                   df_randomized_values, df_with_runrate, df_final, output_file>>
    /\ UNCHANGED client_vars

\* actual_columns_to_unpivot = get_columns_to_unpivot(...) and id_vars; the
\* ValueError is caught by main, which ends
GetColumnsToUnpivot ==
    /\ pc = "get_columns_to_unpivot"
    /\ LET got == get_columns_to_unpivot(df_raw.cols, COLUMNS_TO_UNPIVOT_RANGE)
       IN  IF got.raised
           THEN /\ pc' = "done"
                /\ error' = "ValueError"
                /\ UNCHANGED <<actual_columns_to_unpivot, id_vars>>
           ELSE /\ actual_columns_to_unpivot' = got.columns
                /\ id_vars' = SelectSeq(df_raw.cols, LAMBDA c : c \notin Range(got.columns))
                /\ pc' = "unpivot_data"
                /\ error' = error
    /\ UNCHANGED <<input_file, rng, df_raw, df_unpivoted, df_randomized_values,
                   df_with_runrate, df_final, output_file>>
    /\ UNCHANGED client_vars

UnpivotData ==
    /\ pc = "unpivot_data"
    /\ df_unpivoted' = unpivot_data(df_raw, id_vars, actual_columns_to_unpivot)
    /\ df_raw' = unpivot_data_df_after(df_raw, actual_columns_to_unpivot)
    /\ pc' = "randomize_values"
    /\ UNCHANGED <<input_file, rng, actual_columns_to_unpivot, id_vars,
                   df_randomized_values, df_with_runrate, df_final, error, output_file>>
    /\ UNCHANGED client_vars

RandomizeValues ==
    /\ pc = "randomize_values"
    /\ LET got == randomize_values(df_unpivoted, rng, PERCENTAGE_VARIATION_TENTHS)
       IN  /\ df_randomized_values' = got.df
           /\ rng' = got.rng
    /\ pc' = "calculate_runrate"
    /\ UNCHANGED <<input_file, df_raw, actual_columns_to_unpivot, id_vars, df_unpivoted,
                   df_with_runrate, df_final, error, output_file>>
    /\ UNCHANGED client_vars

\* a KeyError raised by calculate_runrate is caught by main's last handler
CalculateRunrate ==
    /\ pc = "calculate_runrate"
    /\ LET got == calculate_runrate(df_randomized_values)
       IN  IF got.raised
           THEN /\ pc' = "done"
                /\ error' = "KeyError"
                /\ df_with_runrate' = df_with_runrate
           ELSE /\ df_with_runrate' = got.df
                /\ pc' = "calculate_yoy_growth"
                /\ error' = error
    /\ UNCHANGED <<input_file, rng, df_raw, actual_columns_to_unpivot, id_vars,
                   df_unpivoted, df_randomized_values, df_final, output_file>>
    /\ UNCHANGED client_vars

\* df_final = calculate_yoy_growth(...); the sample prints that follow read
\* df_final and change nothing the run uses afterwards
CalculateYoyGrowth ==
    /\ pc = "calculate_yoy_growth"
    /\ df_final' = calculate_yoy_growth(df_with_runrate)
    /\ pc' = "filter"
    /\ UNCHANGED <<input_file, rng, df_raw, actual_columns_to_unpivot, id_vars,
                   df_unpivoted, df_randomized_values, df_with_runrate, error, output_file>>
    /\ UNCHANGED client_vars

\* the sample prints and the recency filter, which rebinds df_final
FilterLatestWeeks ==
    /\ pc = "filter"
    /\ df_final' = recency_filter(df_final)
    /\ pc' = "save_data"
    /\ UNCHANGED <<input_file, rng, df_raw, actual_columns_to_unpivot, id_vars,
                   df_unpivoted, df_randomized_values, df_with_runrate, error, output_file>>
    /\ UNCHANGED client_vars

\* save_data(df_final, OUTPUT_EXCEL_PATH)
SaveData ==
    /\ pc = "save_data"
    /\ output_file' = [exists |-> TRUE, df |-> df_final]
    /\ pc' = "done"
    /\ UNCHANGED <<input_file, rng, df_raw, actual_columns_to_unpivot, id_vars,
                   df_unpivoted, df_randomized_values, df_with_runrate, df_final, error>>
    /\ UNCHANGED client_vars

Next ==
    \/ LoadData
    \/ GetColumnsToUnpivot
    \/ UnpivotData
    \/ RandomizeValues
    \/ CalculateRunrate
    \/ CalculateYoyGrowth
    \/ FilterLatestWeeks
    \/ SaveData

Spec == Init /\ [][Next]_vars

----------------------------------------------------------------------------
(* Properties: vocabulary *)

\* unpivot_data has returned
UnpivotDone == actual_columns_to_unpivot # <<>> /\ pc # "unpivot_data"

\* the long row that wide row i and week column k of the input stand for
LongRowOf(wide, i, k) ==
    [j \in 1..Len(id_vars) |-> Cell(wide, wide.rows[i], id_vars[j])]
    \o <<actual_columns_to_unpivot[k],
         Cell(wide, wide.rows[i], actual_columns_to_unpivot[k])>>

\* the rows of df whose TimePeriod is label
PeriodRows(df, label) ==
    SelectSeq(df.rows, LAMBDA r : Cell(df, r, TIME_PERIOD_COL_NAME) = label)

\* (Cohort, Channel, Values, FiscalWeek) of a row
JoinKey(df, r) == [k \in 1..Len(YOY_MERGE_KEYS) |-> Cell(df, r, YOY_MERGE_KEYS[k])]

JoinKeys(df, rows) == {JoinKey(df, rows[i]) : i \in 1..Len(rows)}

YoyColumnsPresent ==
    \A c \in Range(YOY_MERGE_KEYS) \cup
             {TIME_PERIOD_COL_NAME, VALUE_COL_NAME, RUNRATE_COL_NAME} :
        HasCol(df_with_runrate, c)

\* calculate_yoy_growth has just returned
YoyDone == pc = "filter"

\* ... and it went through the join
YoyJoined ==
    /\ YoyDone
    /\ YoyColumnsPresent
    /\ PeriodRows(df_with_runrate, CURRENT_TIME_PERIOD_LABEL) # <<>>
    /\ PeriodRows(df_with_runrate, PREVIOUS_TIME_PERIOD_LABEL) # <<>>

\* y = c / p - 1 in IEEE arithmetic, by cross-multiplication
IsRatioMinusOne(y, c, p) ==
    IF ~(IsNum(c) /\ IsNum(p)) THEN IsNull(y)
    ELSE IF p.n = 0
         THEN IF c.n > 0 THEN y = PosInf
              ELSE IF c.n < 0 THEN y = NegInf
              ELSE IsNull(y)
    ELSE IsNum(y) /\ (y.n + y.d) * p.n * c.d = c.n * p.d * y.d

----------------------------------------------------------------------------
(* C5 *)

\* C5: for every wide row and every one of the N week columns passed to
\* unpivot_data the output has exactly one row with that wide row's identity
\* cells, the column's header as FiscalWeek and the cell as Value (as many
\* such rows as (wide row, column) pairs that stand for them, when wide rows
\* repeat); the output has (wide rows) x N rows and no other row, and with
\* 52 week columns every FiscalWeek 1..52 occurs for every wide row
C5_UnpivotOneRowPerCell ==
    (UnpivotDone /\ pc = "randomize_values") =>
        LET wide == input_file.df
            N    == Len(actual_columns_to_unpivot)
            R    == Len(wide.rows)
            long == df_unpivoted.rows
            want == [q \in 1..(R * N) |->
                        LongRowOf(wide, ((q - 1) \div N) + 1, ((q - 1) % N) + 1)]
        IN  Eager(<<long, want>>,
            /\ df_unpivoted.cols = id_vars \o <<FISCAL_WEEK_COL_NAME, VALUE_COL_NAME>>
            /\ Len(long) = R * N
            /\ \A q \in 1..(R * N) :
                   Cardinality({p \in 1..Len(long) : long[p] = want[q]})
                       = Cardinality({u \in 1..(R * N) : want[u] = want[q]})
            /\ \A p \in 1..Len(long) : \E q \in 1..(R * N) : long[p] = want[q]
            /\ N = 52 =>
                   \A i \in 1..R, w \in 1..52 :
                       \E p \in 1..Len(long) :
                           long[p] = LongRowOf(wide, i, w) /\ long[p][Len(id_vars) + 1] = I(w))

\* two complete wide rows have been unpivoted into 104 long rows
C5_Witness ==
    /\ UnpivotDone
    /\ pc = "randomize_values"
    /\ Len(actual_columns_to_unpivot) = 52
    /\ Len(input_file.df.rows) = 2
    /\ Len(df_unpivoted.rows) = 104

----------------------------------------------------------------------------
(* C3, C4, C9 *)

\* C3: when both the current and the previous period have rows, the result
\* of calculate_yoy_growth holds a (Cohort, Channel, Values, FiscalWeek) key
\* if and only if the key occurs in both periods, and every row of it is a
\* current-period row: a current-period row without a previous-period row
\* of its key is absent
C3_InnerJoinKeys ==
    YoyJoined =>
        LET cur  == JoinKeys(df_with_runrate,
                        PeriodRows(df_with_runrate, CURRENT_TIME_PERIOD_LABEL))
            prev == JoinKeys(df_with_runrate,
                        PeriodRows(df_with_runrate, PREVIOUS_TIME_PERIOD_LABEL))
        IN  /\ JoinKeys(df_final, df_final.rows) = cur \cap prev
            /\ PeriodRows(df_final, CURRENT_TIME_PERIOD_LABEL) = df_final.rows

\* the join ran on a table with a current-period key that the previous
\* period lacks
C3_Witness ==
    /\ YoyJoined
    /\ JoinKeys(df_with_runrate, PeriodRows(df_with_runrate, CURRENT_TIME_PERIOD_LABEL))
         \ JoinKeys(df_with_runrate, PeriodRows(df_with_runrate, PREVIOUS_TIME_PERIOD_LABEL))
       # {}

C9_MissingPeriodReturnsInput ==
    /\ (pc = "done" /\ df_with_runrate # EmptyDf) => error = ""
    /\ ( /\ YoyDone
         /\ HasCol(df_with_runrate, TIME_PERIOD_COL_NAME)
         /\ \/ PeriodRows(df_with_runrate, CURRENT_TIME_PERIOD_LABEL) = <<>>
            \/ PeriodRows(df_with_runrate, PREVIOUS_TIME_PERIOD_LABEL) = <<>> )
       => /\ Len(df_final.rows) = Len(df_with_runrate.rows)
          /\ \A i \in 1..Len(df_final.rows) :
                /\ \A k \in 1..Len(df_with_runrate.cols) :
                       Cell(df_final, df_final.rows[i], df_with_runrate.cols[k])
                           = df_with_runrate.rows[i][k]
                /\ IsNull(Cell(df_final, df_final.rows[i], YOY_GROWTH_COL))
                /\ IsNull(Cell(df_final, df_final.rows[i], YOY_RUNRATE_GROWTH_COL))

\* calculate_yoy_growth returned on a table with current-period rows and no
\* previous-period row
C9_Witness ==
    /\ YoyDone
    /\ YoyColumnsPresent
    /\ PeriodRows(df_with_runrate, CURRENT_TIME_PERIOD_LABEL) # <<>>
    /\ PeriodRows(df_with_runrate, PREVIOUS_TIME_PERIOD_LABEL) = <<>>
    /\ Len(df_final.rows) > 0

----------------------------------------------------------------------------
(* C1, C2, C8 *)

\* calculate_runrate has just returned
RunrateDone == pc = "calculate_yoy_growth"

GroupingPresent(df) ==
    \A k \in 1..Len(RUNRATE_GROUPING_COLS) : HasCol(df, RUNRATE_GROUPING_COLS[k])

\* (Cohort, Channel, Values) of a row
GroupOf(df, r) ==
    [k \in 1..Len(RUNRATE_GROUPING_COLS) |-> Cell(df, r, RUNRATE_GROUPING_COLS[k])]

\* the row's TimePeriod is a key of the year map
Mapped(df, r) == \E kv \in YEAR_MAP : S(kv[1]) = Cell(df, r, TIME_PERIOD_COL_NAME)

\* g = YearOffset * 52 + FiscalWeek of a row with a mapped TimePeriod, as an
\* integer; 0 for the other rows
GlobalWeekOf(df, r) ==
    IF Mapped(df, r)
    THEN (CHOOSE kv \in YEAR_MAP : S(kv[1]) = Cell(df, r, TIME_PERIOD_COL_NAME))[2] * 52
             + to_numeric(Cell(df, r, FISCAL_WEEK_COL_NAME)).n
    ELSE 0

\* the sum of a sequence of finite numbers, as <<numerator, denominator>>
RECURSIVE RatSum(_)
RatSum(vals) ==
    IF vals = <<>> THEN <<0, 1>>
    ELSE LET t == RatSum(Tail(vals))
             n == Head(vals).n * t[2] + t[1] * Head(vals).d
             d == Head(vals).d * t[2]
             g == Gcd(Abs(n), d)
         IN  <<n \div g, d \div g>>

\* r is the arithmetic mean of the finite numbers vals
IsMeanOf(r, vals) ==
    /\ IsNum(r)
    /\ LET t == RatSum(vals) IN r.n * t[2] * Len(vals) = t[1] * r.d

\* the run-rate table by column: group, mapped, global week, Value, Runrate
RunrateColumns ==
    LET df == df_with_runrate
        n  == Len(df.rows)
    IN  [grp    |-> [i \in 1..n |-> GroupOf(df, df.rows[i])],
         mapped |-> [i \in 1..n |-> Mapped(df, df.rows[i])],
         g      |-> [i \in 1..n |-> GlobalWeekOf(df, df.rows[i])],
         val    |-> [i \in 1..n |-> Cell(df, df.rows[i], VALUE_COL_NAME)],
         rr     |-> [i \in 1..n |-> Cell(df, df.rows[i], RUNRATE_COL_NAME)]]

\* the claim of C1 on row i: the mean over the group's rows with global week
\* in [g-3, g] when they hold at least 4 non-null Values, else null
WeekRangeMean(t, i) ==
    LET inrange == SelectSeq([j \in 1..Len(t.g) |-> j],
                       LAMBDA j : /\ t.grp[j] = t.grp[i]
                                  /\ t.mapped[j]
                                  /\ t.g[j] \in (t.g[i] - 3)..t.g[i]
                                  /\ ~IsNull(t.val[j]))
    IN  IF Len(inrange) >= 4
        THEN IsMeanOf(t.rr[i], [m \in 1..Len(inrange) |-> t.val[inrange[m]]])
        ELSE IsNull(t.rr[i])

\* the mean over row i and the 3 rows listed before it in its group, when
\* those exist and the 4 Values are non-null, else null
RowWindowMean(t, i) ==
    LET upto == SelectSeq([j \in 1..i |-> j], LAMBDA j : t.grp[j] = t.grp[i])
        last == SubSeq(upto, Len(upto) - 3, Len(upto))
    IN  IF Len(upto) >= 4 /\ \A m \in 1..4 : ~IsNull(t.val[last[m]])
        THEN IsMeanOf(t.rr[i], [m \in 1..4 |-> t.val[last[m]]])
        ELSE IsNull(t.rr[i])

\* the groups whose mapped rows have distinct global weeks that form an
\* interval
ContiguousGroups(t) ==
    { G \in Range(t.grp) :
        LET members == {j \in 1..Len(t.g) : t.grp[j] = G /\ t.mapped[j]}
            weeks   == {t.g[j] : j \in members}
        IN  /\ Cardinality(weeks) = Cardinality(members)
            /\ \A w \in weeks : (w - 1 \in weeks) \/ (\A x \in weeks : w <= x) }

\* C1 as claimed: for every group and every output row of calculate_runrate
\* with a mapped TimePeriod, Runrate is the mean of the group's Values over
\* the rows with global week in [g-3, g] when that range holds at least 4
\* non-null Values and null otherwise, for every input, contiguous weeks or
\* not
C1_WeekRangeForEveryInput ==
    (RunrateDone /\ GroupingPresent(df_with_runrate)) =>
        LET t == RunrateColumns
        IN  Eager(t, \A i \in 1..Len(t.g) : t.mapped[i] => WeekRangeMean(t, i))

\* C1 as amended: the output lists each group's mapped rows by ascending
\* global week, the unmapped ones after them; the Runrate of a row with a
\* mapped TimePeriod is the mean of the Values of that row and the 3 rows
\* listed before it in its group when those exist and all 4 Values are
\* non-null, and null otherwise; where the group's global weeks are distinct
\* and contiguous that is the mean over the global weeks [g-3, g]
C1_RowWindowMean ==
    (RunrateDone /\ GroupingPresent(df_with_runrate)) =>
        LET t == RunrateColumns
            n == Len(t.g)
            contiguous == ContiguousGroups(t)
        IN  Eager(<<t, contiguous>>,
            /\ n = Len(df_randomized_values.rows)
            /\ \A i, j \in 1..n :
                   (i < j /\ t.grp[i] = t.grp[j] /\ t.mapped[j])
                       => (t.mapped[i] /\ t.g[i] <= t.g[j])
            /\ \A i \in 1..n : t.mapped[i] => RowWindowMean(t, i)
            /\ \A i \in 1..n :
                   (t.mapped[i] /\ t.grp[i] \in contiguous) => WeekRangeMean(t, i))

\* a row has a Runrate although its group has fewer than 4 rows in the
\* global weeks [g-3, g]: its window reaches across a gap
C1_Witness ==
    /\ RunrateDone
    /\ GroupingPresent(df_with_runrate)
    /\ LET t == RunrateColumns
       IN  \E i \in 1..Len(t.g) :
               /\ t.mapped[i]
               /\ IsNum(t.rr[i])
               /\ t.grp[i] \notin ContiguousGroups(t)
               /\ Cardinality({j \in 1..Len(t.g) :
                      t.grp[j] = t.grp[i] /\ t.mapped[j]
                          /\ t.g[j] \in (t.g[i] - 3)..t.g[i]}) < 4

\* the group of row i has every week 1..52 of FY2024 and of FY2025 once
FullTwoYearGroup(t, i) ==
    \A w \in 1..(2 * 52) :
        Cardinality({j \in 1..Len(t.g) :
            t.grp[j] = t.grp[i] /\ t.mapped[j] /\ t.g[j] = w}) = 1

\* the row of row i's group at global week w
RowAtWeek(t, i, w) ==
    CHOOSE j \in 1..Len(t.g) : t.grp[j] = t.grp[i] /\ t.mapped[j] /\ t.g[j] = w

\* C2: for a group with all 52 weeks in FY2024 and in FY2025, the Runrate of
\* FY2025 week w (w in 1..3) is the mean of the Values of the last 4-w weeks
\* of FY2024 and of weeks 1..w of FY2025 (null when one of the four is
\* null), whatever the order of the rows in the input
C2_WindowCrossesYear ==
    (RunrateDone /\ GroupingPresent(df_with_runrate)) =>
        LET t == RunrateColumns
        IN  Eager(t,
            \A i \in 1..Len(t.g) :
                (t.mapped[i] /\ t.g[i] \in (52 + 1)..(52 + 3) /\ FullTwoYearGroup(t, i)) =>
                    LET window == [m \in 1..4 |-> t.val[RowAtWeek(t, i, t.g[i] - 4 + m)]]
                    IN  IF \A m \in 1..4 : ~IsNull(window[m])
                        THEN IsMeanOf(t.rr[i], window)
                        ELSE IsNull(t.rr[i]))

\* a complete two-year group, its FY2025 row first in the input, has a
\* Runrate at FY2025 week 2
C2_Witness ==
    /\ RunrateDone
    /\ GroupingPresent(df_with_runrate)
    /\ Len(input_file.df.rows) = 2
    /\ Cell(input_file.df, input_file.df.rows[1], TIME_PERIOD_COL_NAME)
           = CURRENT_TIME_PERIOD_LABEL
    /\ LET t == RunrateColumns
       IN  \E i \in 1..Len(t.g) :
               t.mapped[i] /\ t.g[i] = 52 + 2 /\ FullTwoYearGroup(t, i) /\ IsNum(t.rr[i])

\* C8: in the output of calculate_runrate every row whose TimePeriod is not
\* a key of the year map has a null Runrate, whatever other rows its group
\* contains
C8_UnmappedPeriodNullRunrate ==
    RunrateDone =>
        \A i \in 1..Len(df_with_runrate.rows) :
            ~Mapped(df_with_runrate, df_with_runrate.rows[i])
                => IsNull(Cell(df_with_runrate, df_with_runrate.rows[i], RUNRATE_COL_NAME))

----------------------------------------------------------------------------
(* C6, C7 *)

\* Value > 0
Positive(v) == v.t \in {"num", "inf"} /\ v.n > 0

\* the distinct FiscalWeek values of the rows of df with Value > 0
PositiveWeeks(df) ==
    {Cell(df, df.rows[i], FISCAL_WEEK_COL_NAME) :
        i \in {i \in 1..Len(df.rows) : Positive(Cell(df, df.rows[i], VALUE_COL_NAME))}}

\* the 4 numerically highest of them (all of them when fewer than 4 exist)
LatestPositiveWeeks(df) ==
    LET weeks == PositiveWeeks(df)
    IN  {w \in weeks : Cardinality({u \in weeks : u.n * w.d > w.n * u.d}) < 4}

\* C6: the recency filter keeps exactly the rows whose FiscalWeek is one of
\* the 4 numerically highest distinct FiscalWeek values among the rows with
\* Value > 0 (all of them when fewer than 4 exist); a week in which no row
\* has a positive Value is never kept
C6_FilterKeepsLatestPositiveWeeks ==
    [][pc = "filter" =>
          LET kept == LatestPositiveWeeks(df_final)
          IN  df_final'.rows =
                  SelectSeq(df_final.rows,
                      LAMBDA r : Cell(df_final, r, FISCAL_WEEK_COL_NAME) \in kept)]_vars

\* C7: if no row of the final table has Value > 0, the table the recency
\* filter passes to save_data is empty, and the run goes on to save_data
C7_NoPositiveValueSavesEmpty ==
    [][(pc = "filter" /\ PositiveWeeks(df_final) = {}) =>
          (pc' = "save_data" /\ df_final'.rows = <<>>)]_vars

----------------------------------------------------------------------------
(* C10 *)

\* the run-rate stage has an input, and a grouping column is missing from it
RunrateInputLacksGroup ==
    /\ df_randomized_values # EmptyDf
    /\ ~GroupingPresent(df_randomized_values)

\* C10 as claimed: when a grouping column is missing from the input of the
\* run-rate stage the run aborts there: no later stage is reached and
\* nothing is saved
C10_MissingGroupAborts ==
    RunrateInputLacksGroup =>
        /\ pc \in {"calculate_runrate", "done"}
        /\ ~output_file.exists

\* C10 as amended: when a grouping column is missing from the input of the
\* run-rate stage and the TimePeriod column is present, the stage returns its
\* input with Runrate null on every row; the run does not abort: the YoY
\* stage leaves its growth columns null, the recency filter and save_data
\* run, and the run ends without an error and with the table saved
C10_MissingGroupSkipsRunrate ==
    (RunrateInputLacksGroup /\ HasCol(df_randomized_values, TIME_PERIOD_COL_NAME)) =>
        /\ error = ""
        /\ pc = "done" => output_file.exists /\ output_file.df = df_final
        /\ pc \in {"calculate_yoy_growth", "filter", "save_data", "done"} =>
              /\ Len(df_with_runrate.rows) = Len(df_randomized_values.rows)
              /\ \A i \in 1..Len(df_with_runrate.rows) :
                    /\ IsNull(Cell(df_with_runrate, df_with_runrate.rows[i], RUNRATE_COL_NAME))
                    /\ \A c \in Range(df_randomized_values.cols) \ {FISCAL_WEEK_COL_NAME} :
                           Cell(df_with_runrate, df_with_runrate.rows[i], c)
                               = Cell(df_randomized_values, df_randomized_values.rows[i], c)
        /\ pc \in {"filter", "save_data", "done"} =>
              \A i \in 1..Len(df_final.rows) :
                  /\ IsNull(Cell(df_final, df_final.rows[i], YOY_GROWTH_COL))
                  /\ IsNull(Cell(df_final, df_final.rows[i], YOY_RUNRATE_GROWTH_COL))

\* a run on an input without the Cohort column has ended with rows saved
C10_Witness ==
    /\ RunrateInputLacksGroup
    /\ HasCol(df_randomized_values, TIME_PERIOD_COL_NAME)
    /\ pc = "done"
    /\ output_file.exists
    /\ Len(output_file.df.rows) > 0

----------------------------------------------------------------------------
(* C11, C12 *)

\* the headers of the input that are an integer 1..52
IntWeekHeaders == {c \in Range(input_file.df.cols) : c.t = "num" /\ c.d = 1 /\ c.n \in 1..52}

\* the headers of the input that are a string '1'..'52'
StrWeekHeaders ==
    {c \in Range(input_file.df.cols) : c.t = "str" /\ \E k \in 1..52 : str(k) = c.s}

\* the week a week header names
WeekOf(c) == IF c.t = "num" THEN c.n ELSE CHOOSE k \in 1..52 : str(k) = c.s

\* seq lists exactly the headers in set, by ascending week
ListsByWeek(seq, set) ==
    /\ Range(seq) = set
    /\ \A i, j \in 1..Len(seq) : i < j => WeekOf(seq[i]) < WeekOf(seq[j])

\* C11: if the input table has no column named by an integer 1..52 and none
\* named by a string '1'..'52', get_columns_to_unpivot raises, the run ends
\* on the ValueError without executing the unpivot, run-rate, YoY or filter
\* stage and without calling save_data: no output file is written
C11_NoWeekColumnsAbort ==
    (input_file.exists /\ IntWeekHeaders = {} /\ StrWeekHeaders = {}) =>
        /\ pc \in {"load_data", "get_columns_to_unpivot", "done"}
        /\ pc = "done" => error = "ValueError"
        /\ error \in {"", "ValueError"}
        /\ actual_columns_to_unpivot = <<>>
        /\ df_unpivoted = EmptyDf
        /\ df_randomized_values = EmptyDf
        /\ df_with_runrate = EmptyDf
        /\ df_final = EmptyDf
        /\ ~output_file.exists

\* a run on a table with rows and no week column has ended on the ValueError
C11_Witness ==
    /\ input_file.exists
    /\ IntWeekHeaders = {} /\ StrWeekHeaders = {}
    /\ Len(input_file.df.rows) > 0
    /\ pc = "done"
    /\ error = "ValueError"

\* C12 as claimed: if some but not all of the 52 expected week columns are
\* present, get_columns_to_unpivot returns exactly the expected week columns
\* that are present, integer-named and string-named, as a non-empty list
\* and without raising, and the pipeline proceeds to unpivot that set
C12_ReturnsEveryPresentWeekColumn ==
    LET present == IntWeekHeaders \cup StrWeekHeaders
    IN  (input_file.exists /\ present # {} /\ Cardinality(present) < 52) =>
            /\ error # "ValueError"
            /\ pc \notin {"load_data", "get_columns_to_unpivot"} =>
                  /\ Range(actual_columns_to_unpivot) = present
                  /\ actual_columns_to_unpivot # <<>>

\* C12 as amended: if some but not all of the 52 expected week columns are
\* present, get_columns_to_unpivot returns without raising the non-empty
\* list, by ascending week, of the integer-named week columns present or,
\* when there is none, of the string-named ones present, and the pipeline
\* unpivots exactly that set
C12_IntegerNamedFirst ==
    LET present == IntWeekHeaders \cup StrWeekHeaders
        found   == IF IntWeekHeaders # {} THEN IntWeekHeaders ELSE StrWeekHeaders
    IN  (input_file.exists /\ present # {} /\ Cardinality(present) < 52) =>
            /\ error # "ValueError"
            /\ pc \notin {"load_data", "get_columns_to_unpivot"} =>
                  /\ ListsByWeek(actual_columns_to_unpivot, found)
                  /\ actual_columns_to_unpivot # <<>>
            /\ UnpivotDone =>
                  /\ {r[Len(r) - 1] : r \in Range(df_unpivoted.rows)} \subseteq found
                  /\ Len(df_unpivoted.rows) = Len(input_file.df.rows) * Cardinality(found)

\* a table with the integer columns 2, 1 and the string column '3' has been
\* unpivoted on weeks 1 and 2 alone
C12_Witness ==
    /\ input_file.exists
    /\ IntWeekHeaders # {} /\ StrWeekHeaders # {}
    /\ UnpivotDone
    /\ Len(df_unpivoted.rows) > 0
    /\ actual_columns_to_unpivot = <<I(1), I(2)>>

----------------------------------------------------------------------------
(* gemini_client.py and analyser.py: start-up *)

PLACEHOLDER_KEY == S("YOUR_GEMINI_API_KEY_HERE")

CURRENT_TIME_PERIOD == S("FY2025")

\* not v, for a value read from the keys file
Falsy(v) == v = None \/ v = S("")

\* what the file at KEYS_FILE can be: missing, not JSON, JSON that is not
\* an object, or an object whose "GEMINI_API_KEY" is absent (keys.get gives
\* None), empty, the placeholder or a key
KeysFiles ==
    { [exists |-> FALSE, json |-> "", key |-> None],
      [exists |-> TRUE, json |-> "invalid", key |-> None],
      [exists |-> TRUE, json |-> "array", key |-> None] }
    \cup
    { [exists |-> TRUE, json |-> "object", key |-> k] :
        k \in {None, S(""), PLACEHOLDER_KEY, S("AIza-key")} }

\* a key load that lets the placeholder through
load_api_key_accepts_placeholder(kf) ==
    IF ~kf.exists \/ kf.json # "object" THEN [exit |-> TRUE, key |-> None]
    ELSE [exit |-> Falsy(kf.key), key |-> kf.key]

\* gemini_client's "Load API Key" block: open raises FileNotFoundError,
\* json.load raises JSONDecodeError, keys.get on a non-object raises
\* AttributeError, and each handler calls exit(); the exit() after the
\* key test raises SystemExit, which no handler of the block catches
load_api_key(kf) ==
    IF ~kf.exists THEN [exit |-> TRUE, key |-> None]
    ELSE IF kf.json = "invalid" THEN [exit |-> TRUE, key |-> None]
    ELSE IF kf.json # "object" THEN [exit |-> TRUE, key |-> None]
    ELSE IF Falsy(kf.key) \/ kf.key = PLACEHOLDER_KEY
         THEN [exit |-> TRUE, key |-> kf.key]
         ELSE [exit |-> FALSE, key |-> kf.key]

\* analyser's block: the same tests, the key test raising a ValueError that
\* the block's own handler turns into exit()
analyser_load_api_key(kf) ==
    LET raised ==
            IF ~kf.exists THEN "FileNotFoundError"
            ELSE IF kf.json = "invalid" THEN "JSONDecodeError"
            ELSE IF kf.json # "object" THEN "Exception"
            ELSE IF Falsy(kf.key) \/ kf.key = PLACEHOLDER_KEY THEN "ValueError"
            ELSE ""
    IN  [exit |-> raised # "",
         key  |-> IF raised \in {"", "ValueError"} THEN kf.key ELSE None]

----------------------------------------------------------------------------
(* gemini_client.py and analyser.py: preparing the analysis data *)

REQUIRED_COLS ==
    <<TIME_PERIOD_COL_NAME, FISCAL_WEEK_COL_NAME, VALUE_COL_NAME, RUNRATE_COL_NAME,
      YOY_GROWTH_COL, YOY_RUNRATE_GROWTH_COL, COHORT_COL_NAME, CHANNEL_COL_NAME,
      VALUES_COL_NAME>>

\* analyser's required_cols: Runrate is not among them
ANALYSER_REQUIRED_COLS ==
    <<TIME_PERIOD_COL_NAME, FISCAL_WEEK_COL_NAME, VALUE_COL_NAME,
      YOY_GROWTH_COL, YOY_RUNRATE_GROWTH_COL, COHORT_COL_NAME, CHANNEL_COL_NAME,
      VALUES_COL_NAME>>

ANALYSIS_COLS_FOR_PROMPT ==
    <<COHORT_COL_NAME, CHANNEL_COL_NAME, VALUES_COL_NAME, FISCAL_WEEK_COL_NAME,
      VALUE_COL_NAME, RUNRATE_COL_NAME, YOY_GROWTH_COL, YOY_RUNRATE_GROWTH_COL>>

\* df.empty
IsEmpty(df) == df.rows = <<>> \/ df.cols = <<>>

\* Series.max() of a column without nulls
max(vals) == CHOOSE v \in Range(vals) : \A u \in Range(vals) : ~FLess(v, u)

\* df.to_markdown(index=False): a header line, a rule line and one line per
\* row, each a list of fields (the text of a field is not modelled further)
to_markdown(df) ==
    <<df.cols, [k \in 1..Len(df.cols) |-> S("---")]>> \o df.rows

\* a selection that forgets the Value > 0 test
current_any_value(df, period) ==
    FilterRows(df, [i \in 1..Len(df.rows) |->
        /\ Cell(df, df.rows[i], TIME_PERIOD_COL_NAME) = period
        /\ ~IsNull(Cell(df, df.rows[i], FISCAL_WEEK_COL_NAME))])

\* the rows with TimePeriod == period, Value > 0 and FiscalWeek not null
current_positive(df, period) ==
    FilterRows(df, [i \in 1..Len(df.rows) |->
        /\ Cell(df, df.rows[i], TIME_PERIOD_COL_NAME) = period
        /\ FPositive(Cell(df, df.rows[i], VALUE_COL_NAME))
        /\ ~IsNull(Cell(df, df.rows[i], FISCAL_WEEK_COL_NAME))])

\* the rows of df whose FiscalWeek is week
week_rows(df, week) ==
    FilterRows(df, [i \in 1..Len(df.rows) |->
        Cell(df, df.rows[i], FISCAL_WEEK_COL_NAME) = week])

\* the return value ("" for None) and the two globals the function sets,
\* given their values md and hw on entry
load_and_prepare_data_for_analysis(dft, md, hw) ==
    IF dft.none
    THEN [result |-> "Error: Transformed data not available (was None).",
          analysis_data_markdown |-> md, highest_fiscal_week_for_analysis |-> hw]
    ELSE IF IsEmpty(dft.df)
    THEN [result |-> "Error: Transformed data is empty.",
          analysis_data_markdown |-> md, highest_fiscal_week_for_analysis |-> hw]
    ELSE IF \E c \in Range(REQUIRED_COLS) : ~HasCol(dft.df, c)
    THEN [result |-> "Error: Transformed data is missing required columns",
          analysis_data_markdown |-> md, highest_fiscal_week_for_analysis |-> hw]
    ELSE
    LET df_current_tp_positive == current_positive(dft.df, CURRENT_TIME_PERIOD)
    IN  Eager(df_current_tp_positive,
        IF IsEmpty(df_current_tp_positive)
        THEN [result |-> "No data found for 'FY2025' with positive 'Value'.",
              analysis_data_markdown |-> md, highest_fiscal_week_for_analysis |-> hw]
        ELSE
        LET highest == max([i \in 1..Len(df_current_tp_positive.rows) |->
                              Cell(df_current_tp_positive,
                                   df_current_tp_positive.rows[i],
                                   FISCAL_WEEK_COL_NAME)])
            df_analysis_subset == week_rows(df_current_tp_positive, highest)
        IN  Eager(<<highest, df_analysis_subset>>,
            IF IsEmpty(df_analysis_subset)
            THEN [result |-> "Unexpected error: Could not select data for highest FiscalWeek",
                  analysis_data_markdown |-> md,
                  highest_fiscal_week_for_analysis |-> highest]
            ELSE [result |-> "",
                  analysis_data_markdown |->
                      to_markdown(Project(df_analysis_subset, ANALYSIS_COLS_FOR_PROMPT)),
                  highest_fiscal_week_for_analysis |-> highest]))

\* analyser's top-level selection: exit() where the function above returns
\* a message, and a KeyError, which nothing catches, when df_analysis_data
\* has no Runrate column
analyser_select(df) ==
    IF \E c \in Range(ANALYSER_REQUIRED_COLS) : ~HasCol(df, c)
    THEN [end |-> "exited", data_string |-> <<>>, highest_fiscal_week |-> None]
    ELSE
    LET df_fy2025_positive == current_positive(df, CURRENT_TIME_PERIOD)
    IN  Eager(df_fy2025_positive,
        IF IsEmpty(df_fy2025_positive)
        THEN [end |-> "exited", data_string |-> <<>>, highest_fiscal_week |-> None]
        ELSE
        LET highest == max([i \in 1..Len(df_fy2025_positive.rows) |->
                              Cell(df_fy2025_positive, df_fy2025_positive.rows[i],
                                   FISCAL_WEEK_COL_NAME)])
            df_analysis_data == week_rows(df_fy2025_positive, highest)
        IN  Eager(<<highest, df_analysis_data>>,
            IF IsEmpty(df_analysis_data)
            THEN [end |-> "exited", data_string |-> <<>>, highest_fiscal_week |-> highest]
            ELSE IF ~HasCol(df_analysis_data, RUNRATE_COL_NAME)
            THEN [end |-> "KeyError", data_string |-> <<>>, highest_fiscal_week |-> highest]
            ELSE [end |-> "",
                  data_string |->
                      to_markdown(Project(df_analysis_data, ANALYSIS_COLS_FOR_PROMPT)),
                  highest_fiscal_week |-> highest]))

----------------------------------------------------------------------------
(* gemini_client.py: the two calls of the hosted model *)

\* str.strip() of the questions of the model
strip(s) == IF s = " " THEN "" ELSE s

\* an initial analysis that calls the model again after a failure
get_initial_gemini_analysis_retry(mdl, md, hw, outcome) ==
    IF mdl = "None" \/ md = <<>> \/ hw = None
    THEN [result |-> "Error: not ready", calls |-> <<>>]
    ELSE IF outcome = "raised"
    THEN [result |-> "Error getting initial analysis from Gemini", calls |-> <<outcome, outcome>>]
    ELSE [result |-> "response.text", calls |-> <<outcome>>]

\* outcome is what model.generate_content(prompt) and response.text do in
\* the try block: "ok" or "raised"; calls lists the generate_content calls
get_initial_gemini_analysis(mdl, md, hw, outcome) ==
    IF mdl = "None"
    THEN [result |-> "Error: Gemini model not configured.", calls |-> <<>>]
    ELSE IF md = <<>>
    THEN [result |-> "Error: Analysis data not loaded or prepared.", calls |-> <<>>]
    ELSE IF hw = None
    THEN [result |-> "Error: Highest fiscal week for analysis not determined.",
          calls |-> <<>>]
    ELSE IF outcome = "raised"
    THEN [result |-> "Error getting initial analysis from Gemini", calls |-> <<outcome>>]
    ELSE [result |-> "response.text", calls |-> <<outcome>>]

answer_user_question(mdl, md, hw, user_question, outcome) ==
    IF mdl = "None"
    THEN [result |-> "Error: Gemini model not configured.", calls |-> <<>>]
    ELSE IF md = <<>>
    THEN [result |-> "Error: Analysis data not available for Q&A.", calls |-> <<>>]
    ELSE IF user_question = "" \/ strip(user_question) = ""
    THEN [result |-> "Please enter a question.", calls |-> <<>>]
    ELSE IF hw = None
    THEN [result |-> "Error: Fiscal week context not available for Q&A.", calls |-> <<>>]
    ELSE IF outcome = "raised"
    THEN [result |-> "Error getting answer from Gemini", calls |-> <<outcome>>]
    ELSE [result |-> "response.text", calls |-> <<outcome>>]

----------------------------------------------------------------------------
(* the analysis scripts: inputs *)

MaxQuestions == 2

Questions == {"", " ", "Which cohort is weakest?"}

\* header rows of the spreadsheets at TRANSFORMED_DATA_FILE: what the
\* pipeline saves after a join, what it saves when a period is missing
\* (LastYearValue is kept), and a table without Runrate
TransformedLayouts ==
    { IdHeaders \o <<FISCAL_WEEK_COL_NAME, VALUE_COL_NAME, RUNRATE_COL_NAME,
                     YOY_GROWTH_COL, YOY_RUNRATE_GROWTH_COL>>,
      IdHeaders \o <<FISCAL_WEEK_COL_NAME, VALUE_COL_NAME, RUNRATE_COL_NAME,
                     LAST_YEAR_VALUE_COL_NAME, YOY_GROWTH_COL, YOY_RUNRATE_GROWTH_COL>>,
      IdHeaders \o <<FISCAL_WEEK_COL_NAME, VALUE_COL_NAME,
                     YOY_GROWTH_COL, YOY_RUNRATE_GROWTH_COL>> }

\* the long rows such a table is built from: group, TimePeriod, FiscalWeek
\* and Value
TransformedRowChoices ==
    { <<G1, "FY2025", I(2), I(20)>>, <<G2, "FY2025", I(2), I(0)>>,
      <<G2, "FY2025", I(1), I(10)>>, <<G1, "FY2024", I(3), I(30)>>,
      <<G1, "FY2025", NaN, I(5)>>,   <<G2, "FY2025", I(3), I(-5)>> }

TransformedRow(layout, choice) ==
    LET g == choice[1]
    IN  [j \in 1..Len(layout) |->
            IF layout[j] = COHORT_COL_NAME THEN S(g[1])
            ELSE IF layout[j] = CHANNEL_COL_NAME THEN S(g[2])
            ELSE IF layout[j] = VALUES_COL_NAME THEN S(g[3])
            ELSE IF layout[j] = TIME_PERIOD_COL_NAME THEN S(choice[2])
            ELSE IF layout[j] = FISCAL_WEEK_COL_NAME THEN choice[3]
            ELSE IF layout[j] = VALUE_COL_NAME THEN choice[4]
            ELSE IF layout[j] = YOY_GROWTH_COL THEN Q(1, 2)
            ELSE NaN]

TransformedTables ==
    UNION { { [cols |-> layout,
               rows |-> [i \in 1..n |-> TransformedRow(layout, choices[i])]] :
              choices \in [1..n -> TransformedRowChoices] } :
            n \in 0..MaxRows, layout \in TransformedLayouts }

----------------------------------------------------------------------------
(* the analysis scripts: gradio_interface.py importing gemini_client.py, and
   analyser.py *)

pipeline_vars == <<input_file, rng, pc, df_raw, actual_columns_to_unpivot, id_vars,
                   df_unpivoted, df_randomized_values, df_with_runrate, df_final,
                   error, output_file>>

\* one of the two scripts starts in a fresh process; the pipeline is not
\* running and its output file holds whatever was saved there
ClientInit ==
    /\ input_file = [exists |-> FALSE, df |-> EmptyDf]
    /\ rng = [key |-> 1, pos |-> 0]
    /\ pc = "not_run"
    /\ df_raw = EmptyDf
    /\ actual_columns_to_unpivot = <<>>
    /\ id_vars = <<>>
    /\ df_unpivoted = EmptyDf
    /\ df_randomized_values = EmptyDf
    /\ df_with_runrate = EmptyDf
    /\ df_final = EmptyDf
    /\ error = ""
    /\ output_file \in
           {[exists |-> TRUE, df |-> t] : t \in TransformedTables}
           \cup {[exists |-> FALSE, df |-> EmptyDf]}
    /\ keys_file \in KeysFiles
    /\ script \in {"gradio_interface", "analyser"}
    /\ cpc = "load_api_key"
    /\ GEMINI_API_KEY = None
    /\ model = "None"
    /\ df_transformed = NoTable
    /\ analysis_data_markdown = <<>>
    /\ highest_fiscal_week_for_analysis = None
    /\ spreadsheet_reads = 0
    /\ model_calls = <<>>
    /\ returned = <<>>

\* gemini_client, "Load API Key"; gradio_interface turns the SystemExit of
\* the import into sys.exit(1)
ClientLoadApiKey ==
    /\ script = "gradio_interface"
    /\ cpc = "load_api_key"
    /\ LET got == load_api_key(keys_file)
       IN  /\ GEMINI_API_KEY' = got.key
           /\ cpc' = IF got.exit THEN "exited" ELSE "configure"
    /\ UNCHANGED <<keys_file, script, model, df_transformed, analysis_data_markdown,
                   highest_fiscal_week_for_analysis, spreadsheet_reads, model_calls,
                   returned>>
    /\ UNCHANGED pipeline_vars

\* gemini_client, "Configure Gemini API": genai.configure and
\* GenerativeModel either succeed or raise, and the handler calls exit()
ClientConfigure ==
    /\ script = "gradio_interface"
    /\ cpc = "configure"
    /\ \E ok \in BOOLEAN :
        IF ok THEN model' = "GenerativeModel" /\ cpc' = "load_transformed_data"
              ELSE model' = model /\ cpc' = "exited"
    /\ UNCHANGED <<keys_file, script, GEMINI_API_KEY, df_transformed,
                   analysis_data_markdown, highest_fiscal_week_for_analysis,
                   spreadsheet_reads, model_calls, returned>>
    /\ UNCHANGED pipeline_vars

\* gemini_client, "Load Transformed Data"
ClientLoadTransformedData ==
    /\ script = "gradio_interface"
    /\ cpc = "load_transformed_data"
    /\ IF output_file.exists
       THEN /\ df_transformed' = [none |-> FALSE, df |-> output_file.df]
            /\ spreadsheet_reads' = spreadsheet_reads + 1
            /\ cpc' = "load_and_prepare"
       ELSE /\ UNCHANGED <<df_transformed, spreadsheet_reads>>
            /\ cpc' = "exited"
    /\ UNCHANGED <<keys_file, script, GEMINI_API_KEY, model, analysis_data_markdown,
                   highest_fiscal_week_for_analysis, model_calls, returned>>
    /\ UNCHANGED pipeline_vars

\* gradio_interface's checks of the imported module, then
\* load_and_prepare_data_for_analysis(); any message ends the script
LoadAndPrepare ==
    /\ script = "gradio_interface"
    /\ cpc = "load_and_prepare"
    /\ IF Falsy(GEMINI_API_KEY) \/ GEMINI_API_KEY = PLACEHOLDER_KEY
          \/ model = "None" \/ df_transformed.none
       THEN /\ cpc' = "exited"
            /\ UNCHANGED <<analysis_data_markdown, highest_fiscal_week_for_analysis>>
       ELSE LET got == load_and_prepare_data_for_analysis(
                           df_transformed, analysis_data_markdown,
                           highest_fiscal_week_for_analysis)
            IN  /\ analysis_data_markdown' = got.analysis_data_markdown
                /\ highest_fiscal_week_for_analysis' = got.highest_fiscal_week_for_analysis
                /\ cpc' = IF got.result # "" \/ got.highest_fiscal_week_for_analysis = None
                          THEN "exited" ELSE "initial_analysis"
    /\ UNCHANGED <<keys_file, script, GEMINI_API_KEY, model, df_transformed,
                   spreadsheet_reads, model_calls, returned>>
    /\ UNCHANGED pipeline_vars

\* initial_summary_text = gemini_client.get_initial_gemini_analysis(), after
\* which the app is launched
GetInitialAnalysis ==
    /\ script = "gradio_interface"
    /\ cpc = "initial_analysis"
    /\ \E outcome \in {"ok", "raised"} :
        LET got == get_initial_gemini_analysis(model, analysis_data_markdown,
                       highest_fiscal_week_for_analysis, outcome)
        IN  /\ returned' = Append(returned, got.result)
            /\ model_calls' = model_calls \o got.calls
    /\ cpc' = "serving"
    /\ UNCHANGED <<keys_file, script, GEMINI_API_KEY, model, df_transformed,
                   analysis_data_markdown, highest_fiscal_week_for_analysis,
                   spreadsheet_reads>>
    /\ UNCHANGED pipeline_vars

\* a click of ask_button: answer_user_question(question_input)
AnswerUserQuestion ==
    /\ script = "gradio_interface"
    /\ cpc = "serving"
    /\ Len(returned) < 1 + MaxQuestions
    /\ \E user_question \in Questions, outcome \in {"ok", "raised"} :
        LET got == answer_user_question(model, analysis_data_markdown,
                       highest_fiscal_week_for_analysis, user_question, outcome)
        IN  /\ returned' = Append(returned, got.result)
            /\ model_calls' = model_calls \o got.calls
    /\ UNCHANGED <<keys_file, script, cpc, GEMINI_API_KEY, model, df_transformed,
                   analysis_data_markdown, highest_fiscal_week_for_analysis,
                   spreadsheet_reads>>
    /\ UNCHANGED pipeline_vars

\* analyser, "Load API Key"
AnalyserLoadApiKey ==
    /\ script = "analyser"
    /\ cpc = "load_api_key"
    /\ LET got == analyser_load_api_key(keys_file)
       IN  /\ GEMINI_API_KEY' = got.key
           /\ cpc' = IF got.exit THEN "exited" ELSE "configure"
    /\ UNCHANGED <<keys_file, script, model, df_transformed, analysis_data_markdown,
                   highest_fiscal_week_for_analysis, spreadsheet_reads, model_calls,
                   returned>>
    /\ UNCHANGED pipeline_vars

\* analyser, "Configure Gemini API"
AnalyserConfigure ==
    /\ script = "analyser"
    /\ cpc = "configure"
    /\ \E ok \in BOOLEAN :
        IF ok THEN model' = "GenerativeModel" /\ cpc' = "load_transformed_data"
              ELSE model' = model /\ cpc' = "exited"
    /\ UNCHANGED <<keys_file, script, GEMINI_API_KEY, df_transformed,
                   analysis_data_markdown, highest_fiscal_week_for_analysis,
                   spreadsheet_reads, model_calls, returned>>
    /\ UNCHANGED pipeline_vars

\* analyser, "Load Transformed Data"
AnalyserLoadTransformedData ==
    /\ script = "analyser"
    /\ cpc = "load_transformed_data"
    /\ IF output_file.exists
       THEN /\ df_transformed' = [none |-> FALSE, df |-> output_file.df]
            /\ spreadsheet_reads' = spreadsheet_reads + 1
            /\ cpc' = "select_analysis_data"
       ELSE /\ UNCHANGED <<df_transformed, spreadsheet_reads>>
            /\ cpc' = "exited"
    /\ UNCHANGED <<keys_file, script, GEMINI_API_KEY, model, analysis_data_markdown,
                   highest_fiscal_week_for_analysis, model_calls, returned>>
    /\ UNCHANGED pipeline_vars

\* analyser's selection of the rows to analyse; data_string and
\* highest_fiscal_week are held in analysis_data_markdown and
\* highest_fiscal_week_for_analysis
AnalyserSelectData ==
    /\ script = "analyser"
    /\ cpc = "select_analysis_data"
    /\ LET got == analyser_select(df_transformed.df)
       IN  /\ analysis_data_markdown' = got.data_string
           /\ highest_fiscal_week_for_analysis' = got.highest_fiscal_week
           /\ cpc' = IF got.end = "" THEN "send_prompt" ELSE got.end
    /\ UNCHANGED <<keys_file, script, GEMINI_API_KEY, model, df_transformed,
                   spreadsheet_reads, model_calls, returned>>
    /\ UNCHANGED pipeline_vars

\* analyser's single model.generate_content call; a failure is printed
AnalyserSendPrompt ==
    /\ script = "analyser"
    /\ cpc = "send_prompt"
    /\ \E outcome \in {"ok", "raised"} :
        model_calls' = Append(model_calls, outcome)
    /\ cpc' = "finished"
    /\ UNCHANGED <<keys_file, script, GEMINI_API_KEY, model, df_transformed,
                   analysis_data_markdown, highest_fiscal_week_for_analysis,
                   spreadsheet_reads, returned>>
    /\ UNCHANGED pipeline_vars

ClientNext ==
    \/ ClientLoadApiKey
    \/ ClientConfigure
    \/ ClientLoadTransformedData
    \/ LoadAndPrepare
    \/ GetInitialAnalysis
    \/ AnswerUserQuestion
    \/ AnalyserLoadApiKey
    \/ AnalyserConfigure
    \/ AnalyserLoadTransformedData
    \/ AnalyserSelectData
    \/ AnalyserSendPrompt

ClientSpec == ClientInit /\ [][ClientNext]_vars

----------------------------------------------------------------------------
(* C13 *)

\* the credential file is missing, is not valid JSON, or holds no usable
\* API key (not an object, key absent, empty or the placeholder)
CredentialLoadFails ==
    \/ ~keys_file.exists
    \/ keys_file.json # "object"
    \/ keys_file.key \in {None, S(""), PLACEHOLDER_KEY}

\* C13: in gradio_interface/gemini_client and in analyser, when the
\* credential file is missing, is not valid JSON, or holds an absent, empty
\* or placeholder API key, the script terminates at the key load: it is
\* never past that step except as exited, the transformed-data spreadsheet
\* is never read and no model call is made
C13_NoReadAfterFailedCredentialLoad ==
    (script # "" /\ CredentialLoadFails) =>
        /\ cpc \in {"load_api_key", "exited"}
        /\ spreadsheet_reads = 0
        /\ df_transformed = NoTable
        /\ model = "None"
        /\ model_calls = <<>>

\* analyser has exited on a placeholder key although the spreadsheet exists
C13_Witness ==
    /\ script = "analyser"
    /\ cpc = "exited"
    /\ keys_file.exists /\ keys_file.json = "object" /\ keys_file.key = PLACEHOLDER_KEY
    /\ output_file.exists /\ output_file.df.rows # <<>>
    /\ spreadsheet_reads = 0

----------------------------------------------------------------------------
(* C14 *)

\* the strings the two functions return when the model call raised
ModelCallErrors ==
    {"Error getting initial analysis from Gemini", "Error getting answer from Gemini"}

\* the step made a model call that raised
ModelCallRaised ==
    /\ Len(model_calls') > Len(model_calls)
    /\ model_calls'[Len(model_calls')] = "raised"

\* C14: every invocation of get_initial_gemini_analysis or
\* answer_user_question makes at most one model call; when that call
\* raises, the invocation still returns, what it returns is an error
\* message, analysis_data_markdown, highest_fiscal_week_for_analysis and
\* model are unchanged, the app keeps serving, and a question asked next
\* reaches the model and is answered when the model responds
C14_ModelCallFailureIsReturned ==
    [][(script = "gradio_interface" /\ cpc \in {"initial_analysis", "serving"}) =>
          /\ Len(model_calls') <= Len(model_calls) + 1
          /\ ModelCallRaised =>
                /\ Len(returned') = Len(returned) + 1
                /\ returned'[Len(returned')] \in ModelCallErrors
                /\ cpc' = "serving"
                /\ UNCHANGED <<analysis_data_markdown,
                               highest_fiscal_week_for_analysis, model>>
                /\ answer_user_question(model', analysis_data_markdown',
                       highest_fiscal_week_for_analysis',
                       "Which cohort is weakest?", "ok")
                   = [result |-> "response.text", calls |-> <<"ok">>]
      ]_vars

\* the initial analysis failed, the first question failed, and the second
\* question was answered
C14_Witness ==
    /\ cpc = "serving"
    /\ model_calls = <<"raised", "raised", "ok">>
    /\ returned = <<"Error getting initial analysis from Gemini",
                    "Error getting answer from Gemini", "response.text">>

----------------------------------------------------------------------------
(* C15 *)

\* load_and_prepare_data_for_analysis has returned to gradio_interface
Prepared ==
    /\ script = "gradio_interface"
    /\ ~df_transformed.none
    /\ cpc \in {"initial_analysis", "serving", "exited"}

RequiredColumnsPresent ==
    \A c \in Range(REQUIRED_COLS) : HasCol(df_transformed.df, c)

LoadedCell(i, c) == Cell(df_transformed.df, df_transformed.df.rows[i], c)

\* the rows (by position) of the current period with Value > 0 and a
\* non-null FiscalWeek
Candidates ==
    {i \in 1..Len(df_transformed.df.rows) :
        /\ LoadedCell(i, TIME_PERIOD_COL_NAME) = S("FY2025")
        /\ Positive(LoadedCell(i, VALUE_COL_NAME))
        /\ LoadedCell(i, FISCAL_WEEK_COL_NAME).t # "nan"}

\* those of them in the highest FiscalWeek
TopWeekRows ==
    {i \in Candidates :
        \A j \in Candidates :
            LoadedCell(j, FISCAL_WEEK_COL_NAME).n * LoadedCell(i, FISCAL_WEEK_COL_NAME).d
                <= LoadedCell(i, FISCAL_WEEK_COL_NAME).n * LoadedCell(j, FISCAL_WEEK_COL_NAME).d}

\* the k-th smallest member of a set of positions
Kth(set, k) == CHOOSE i \in set : Cardinality({j \in set : j < i}) = k - 1

\* C15: for a loaded table with the nine required columns,
\* load_and_prepare_data_for_analysis renders (below the header and rule
\* lines, in table order, in the eight prompt columns) exactly the rows with
\* TimePeriod = FY2025, Value > 0 and FiscalWeek equal to the maximum
\* FiscalWeek among the FY2025 rows with Value > 0 and a non-null
\* FiscalWeek, and sets the highest week to that maximum; when no such row
\* exists (or a required column is missing) it returns a message, so that
\* gradio_interface exits, and the markdown context and the highest week
\* stay unset
C15_RendersTopWeekRows ==
    Prepared =>
        IF RequiredColumnsPresent /\ TopWeekRows # {}
        THEN /\ cpc # "exited"
             /\ Len(analysis_data_markdown) = 2 + Cardinality(TopWeekRows)
             /\ analysis_data_markdown[1] = ANALYSIS_COLS_FOR_PROMPT
             /\ \A k \in 1..Cardinality(TopWeekRows) :
                   analysis_data_markdown[2 + k] =
                       [c \in 1..Len(ANALYSIS_COLS_FOR_PROMPT) |->
                           LoadedCell(Kth(TopWeekRows, k), ANALYSIS_COLS_FOR_PROMPT[c])]
             /\ \A i \in TopWeekRows :
                   highest_fiscal_week_for_analysis = LoadedCell(i, FISCAL_WEEK_COL_NAME)
        ELSE /\ cpc = "exited"
             /\ analysis_data_markdown = <<>>
             /\ highest_fiscal_week_for_analysis = None

\* week 1 was rendered from a table whose other row is a later week with a
\* negative Value
C15_Witness ==
    /\ Prepared
    /\ cpc = "initial_analysis"
    /\ Len(df_transformed.df.rows) = 2
    /\ \E i \in 1..2 : /\ LoadedCell(i, FISCAL_WEEK_COL_NAME) = I(3)
                       /\ LoadedCell(i, VALUE_COL_NAME) = I(-5)
    /\ highest_fiscal_week_for_analysis = I(1)
    /\ Len(analysis_data_markdown) = 3

----------------------------------------------------------------------------
(* C16 *)

\* the input has the columns Cohort, Channel, Values, TimePeriod and
\* integer-named week columns, and nothing else
StandardInput ==
    /\ input_file.exists
    /\ IntWeekHeaders # {}
    /\ Range(input_file.df.cols) = Range(IdHeaders) \cup IntWeekHeaders

SavedColumns ==
    Range(IdHeaders) \cup
    {FISCAL_WEEK_COL_NAME, VALUE_COL_NAME, RUNRATE_COL_NAME,
     YOY_GROWTH_COL, YOY_RUNRATE_GROWTH_COL}

SavedWeeks ==
    {Cell(output_file.df, output_file.df.rows[i], FISCAL_WEEK_COL_NAME) :
        i \in 1..Len(output_file.df.rows)}

\* C16: on every run with such an input that reaches save_data, the saved
\* table has exactly the columns Cohort, Channel, Values, TimePeriod,
\* FiscalWeek, Value, Runrate, YearOnYearGrowth and YearOnYearRunrateGrowth
\* and at most 4 distinct FiscalWeek values
C16_SavedTableShape ==
    (StandardInput /\ output_file.exists) =>
        /\ Range(output_file.df.cols) = SavedColumns
        /\ Cardinality(SavedWeeks) <= 4

----------------------------------------------------------------------------
(* C17: the pipeline run again *)

\* header rows of the inputs of the repeated runs
RerunLayouts ==
    { IdHeaders \o IntHeaders(<<1, 2>>), IdHeaders, FullLayout }

RerunInit ==
    /\ Init
    /\ input_file.exists => input_file.df.cols \in RerunLayouts

\* main() is run again on the same input file, the generator seeded as it
\* was for the run before; the file the earlier run saved is still on disk
Rerun ==
    /\ pc = "done"
    /\ pc' = "load_data"
    /\ rng' = [rng EXCEPT !.pos = 0]
    /\ df_raw' = EmptyDf
    /\ actual_columns_to_unpivot' = <<>>
    /\ id_vars' = <<>>
    /\ df_unpivoted' = EmptyDf
    /\ df_randomized_values' = EmptyDf
    /\ df_with_runrate' = EmptyDf
    /\ df_final' = EmptyDf
    /\ error' = ""
    /\ UNCHANGED <<input_file, output_file>>
    /\ UNCHANGED client_vars

RerunNext ==
    \/ LoadData
    \/ GetColumnsToUnpivot
    \/ UnpivotData
    \/ RandomizeValues
    \/ CalculateRunrate
    \/ CalculateYoyGrowth
    \/ FilterLatestWeeks
    \/ SaveData
    \/ Rerun

RerunSpec == RerunInit /\ [][RerunNext]_vars

----------------------------------------------------------------------------
(* C18: the stages called on any list of week columns *)

\* header rows of the tables handed to unpivot_data: week columns, none,
\* and none with FiscalWeek and Value already there
StageLayouts ==
    { IdHeaders \o IntHeaders(<<1, 2>>),
      IdHeaders,
      IdHeaders \o <<FISCAL_WEEK_COL_NAME, VALUE_COL_NAME>> }

StageTables ==
    UNION { { WideTable(layout, choices) : choices \in [1..n -> RowChoices] } :
            n \in 0..MaxRows, layout \in StageLayouts }

\* the lists of week columns unpivot_data can be given for a table: the
\* empty list, and the table's week columns
StageValueVars(df) ==
    {<<>>} \cup
    {SelectSeq(df.cols, LAMBDA c : c.t = "num")} 

\* unpivot_data is about to be called on a table with a list of week
\* columns, the other columns being the id_vars; the later stages follow
\* as in main
StageInit ==
    /\ input_file = [exists |-> FALSE, df |-> EmptyDf]
    /\ rng \in {[key |-> k, pos |-> 0] : k \in RngSeeds}
    /\ pc = "unpivot_data"
    /\ df_raw \in StageTables
    /\ actual_columns_to_unpivot \in StageValueVars(df_raw)
    /\ id_vars = SelectSeq(df_raw.cols, LAMBDA c : c \notin Range(actual_columns_to_unpivot))
    /\ df_unpivoted = EmptyDf
    /\ df_randomized_values = EmptyDf
    /\ df_with_runrate = EmptyDf
    /\ df_final = EmptyDf
    /\ error = ""
    /\ output_file = [exists |-> FALSE, df |-> EmptyDf]
    /\ ClientNotStarted

StageNext ==
    \/ UnpivotData
    \/ RandomizeValues
    \/ CalculateRunrate
    \/ CalculateYoyGrowth
    \/ FilterLatestWeeks
    \/ SaveData

StageSpec == StageInit /\ [][StageNext]_vars

\* C18: no stage modifies the table it receives: the caller's table is the
\* same after unpivot_data, randomize_values, calculate_runrate and
\* calculate_yoy_growth as before, whatever the list of week columns
C18_StagesLeaveInputUnchanged ==
    [][/\ pc = "unpivot_data" => df_raw' = df_raw
       /\ pc = "randomize_values" => df_unpivoted' = df_unpivoted
       /\ pc = "calculate_runrate" => df_randomized_values' = df_randomized_values
       /\ pc = "calculate_yoy_growth" => df_with_runrate' = df_with_runrate
      ]_vars

----------------------------------------------------------------------------
(* C19 *)

\* calculate_yoy_growth has returned, and the table it was given has rows
\* of both periods
BothPeriodsHaveRows ==
    /\ pc \in {"filter", "save_data", "done"}
    /\ HasCol(df_with_runrate, TIME_PERIOD_COL_NAME)
    /\ PeriodRows(df_with_runrate, CURRENT_TIME_PERIOD_LABEL) # <<>>
    /\ PeriodRows(df_with_runrate, PREVIOUS_TIME_PERIOD_LABEL) # <<>>

OnlyCurrentPeriodRows(df) ==
    \A i \in 1..Len(df.rows) :
        Cell(df, df.rows[i], TIME_PERIOD_COL_NAME) = CURRENT_TIME_PERIOD_LABEL

\* C19 as claimed: when both periods have rows, the result of
\* calculate_yoy_growth, the table the recency filter hands on and the
\* saved table hold current-period rows only
C19_OnlyCurrentPeriodRows ==
    BothPeriodsHaveRows =>
        /\ OnlyCurrentPeriodRows(df_final)
        /\ output_file.exists => OnlyCurrentPeriodRows(output_file.df)

\* C19: when both periods have rows and the table has every column the
\* year-on-year stage requires (Cohort, Channel, Values, FiscalWeek,
\* TimePeriod, Value, Runrate), the result of calculate_yoy_growth, the
\* table the recency filter hands on and the saved table hold
\* current-period rows only
C19_JoinedOnlyCurrentPeriodRows ==
    (BothPeriodsHaveRows /\ YoyColumnsPresent) =>
        /\ OnlyCurrentPeriodRows(df_final)
        /\ output_file.exists => OnlyCurrentPeriodRows(output_file.df)

\* a run on rows of both periods has saved a non-empty table
C19_Witness ==
    /\ BothPeriodsHaveRows
    /\ YoyColumnsPresent
    /\ pc = "done"
    /\ output_file.exists
    /\ output_file.df.rows # <<>>
    /\ OnlyCurrentPeriodRows(output_file.df)

====
